---- MODULE Spec2Model ----
(***************************************************************************)
(* Translation ranker: the annotation sheet (a grid of text cells), the    *)
(* Apps Script commit handler doPost (src/google-apps-script.js), the      *)
(* update-sheet route (src/app/api/update-sheet/route.ts) and the          *)
(* annotator page (src/app/page.tsx): loadData, onDragEnd, the comment     *)
(* box, checkAllInteractions and handleSubmit.                             *)
(***************************************************************************)
EXTENDS Integers, Sequences, FiniteSets, TLC

VARIABLES
  sheet,          \* the spreadsheet: sheet[r][c] is the text of row r, column c (row 1 = header)
  scriptUrlSet,   \* route.ts: GOOGLE_APPS_SCRIPT_URL is configured
  posts,          \* number of doPost executions so far
  lastPost,       \* the last finished doPost execution
  execs,          \* the doPost executions in progress, one per execution slot
  data,           \* page.tsx state `data`: the batch
  loading,        \* page.tsx state `loading`
  submitting,     \* page.tsx state `submitting`
  submitted,      \* page.tsx state `submitted`
  shouldRedirect, \* page.tsx state `shouldRedirect`
  comments,       \* page.tsx state `comments`: id -> text
  error,          \* page.tsx state `error` ("" is null)
  alertMsg,       \* the alert() handleSubmit has open (NoAlert when none)
  inflight,       \* the body of the session's pending POST /api/update-sheet (<<>> when none)
  fetched,        \* the parsed CSV export the last loadData worked on
  shown,          \* per batch position, the column order first displayed by the last loadData
  result,         \* the answer of POST /api/update-sheet that handleSubmit, or a client of the route, last got
  routeFetch      \* route.ts: what the handler of the last request called fetch() on ("" when nothing)

vars == <<sheet, scriptUrlSet, posts, lastPost, execs, data, loading, submitting, submitted,
          shouldRedirect, comments, error, alertMsg, inflight, fetched, shown, result,
          routeFetch>>

storeVars == <<sheet, posts, lastPost, execs>>
pageVars == <<data, loading, submitting, submitted, shouldRedirect, comments, error,
              alertMsg, inflight, fetched, shown, result>>

-----------------------------------------------------------------------------
(* Bounds of the model                                                      *)

MaxDataRows == 2       \* data rows of the sheet in the full system
MaxLoadRows == 6       \* data rows of the sheet in the loader specification
MaxPosts == 2          \* doPost executions in one behaviour
MaxAnnotations == 2    \* submissions in one directly posted request
MaxShuffle == 1        \* Math.random shuffles are rotations by 0..MaxShuffle
MaxDragIndex == 1      \* drag source and destination indices are 0..MaxDragIndex

-----------------------------------------------------------------------------
(* Text: JavaScript string operations on cell and request text              *)

Min(a, b) == IF a < b THEN a ELSE b
Max(a, b) == IF a > b THEN a ELSE b

Char(s, i) == SubSeq(s, i, i)

IsSpace(c) == c \in {" ", "\t", "\n", "\r"}

RECURSIVE TrimStart(_)
TrimStart(s) ==
  IF Len(s) > 0 /\ IsSpace(Char(s, 1)) THEN TrimStart(SubSeq(s, 2, Len(s))) ELSE s

RECURSIVE TrimEnd(_)
TrimEnd(s) ==
  IF Len(s) > 0 /\ IsSpace(Char(s, Len(s))) THEN TrimEnd(SubSeq(s, 1, Len(s) - 1)) ELSE s

\* String.prototype.trim
Trim(s) == TrimEnd(TrimStart(s))

UpperLetters == "ABCDEFGHIJKLMNOPQRSTUVWXYZ"
LowerLetters == "abcdefghijklmnopqrstuvwxyz"

LowerChar(c) ==
  IF \E i \in 1..26 : Char(UpperLetters, i) = c
    THEN Char(LowerLetters, CHOOSE i \in 1..26 : Char(UpperLetters, i) = c)
    ELSE c

RECURSIVE LowerFrom(_, _)
LowerFrom(s, i) == IF i > Len(s) THEN "" ELSE LowerChar(Char(s, i)) \o LowerFrom(s, i + 1)

\* Column names as they occur in header rows; their lower-case forms are tabulated
\* once (LowerOfName), any other text is converted character by character
HeaderNames ==
  {"id", "ID", "Id", "sentence", "Sentence", "ad", "an", "bo", "ca", "op", "pa", "no",
   "Annotator_1_Rankings", "Annotator_1_Comments", "Annotator_2_Rankings",
   "Annotator_2_Comments", "Annotator_3_Rankings", "Annotator_3_Comments",
   "annotator_1_rankings", "annotator_1_comments", "annotator_2_rankings",
   "annotator_2_comments", "annotator_3_rankings", "annotator_3_comments",
   "Annotator_1", "Annotator_2", "Annotator_3", "annotator_1", "annotator_2", "annotator_3",
   "Annotator 1 Rankings", "Annotator 2 Rankings", "Annotator 3 Rankings",
   "Annotator 1 Comments", "Annotator 2 Comments", "Annotator 3 Comments",
   "Annotator_1_Comment", "Annotator_2_Comment", "Annotator_3_Comment",
   "Annotator 1", "Annotator 2", "Annotator 3",
   "Annotator 1 Comment", "Annotator 2 Comment", "Annotator 3 Comment"}

LowerOfName == [s \in HeaderNames |-> LowerFrom(s, 1)]

\* String.prototype.toLowerCase
ToLower(s) == IF s \in HeaderNames THEN LowerOfName[s] ELSE LowerFrom(s, 1)

IsDigit(c) == c \in {"0", "1", "2", "3", "4", "5", "6", "7", "8", "9"}

DigitValue(c) == CHOOSE d \in 0..9 : Char("0123456789", d + 1) = c

RECURSIVE JoinFrom(_, _)
JoinFrom(xs, i) ==
  IF i > Len(xs) THEN "" ELSE "," \o xs[i] \o JoinFrom(xs, i + 1)

\* Array.prototype.join(',')
Join(xs) == IF Len(xs) = 0 THEN "" ELSE xs[1] \o JoinFrom(xs, 2)

\* Array.prototype.findIndex, 1-based, given the set of the indices whose element
\* satisfies the predicate; 0 when there is none
FindIndex(hits) ==
  IF hits = {} THEN 0 ELSE CHOOSE i \in hits : \A j \in hits : i <= j

-----------------------------------------------------------------------------
(* The sheet: a grid of text cells; an absent cell reads as ""              *)

Width(sh) == IF Len(sh) = 0 THEN 0 ELSE Len(sh[1])

Cell(sh, r, c) == IF r \in 1..Len(sh) /\ c \in 1..Len(sh[r]) THEN sh[r][c] ELSE ""

SetCell_Column(sh, r, c, v) ==
  [i \in 1..Max(Len(sh), r) |->
     [j \in 1..Max(Width(sh), c) |-> IF i >= r /\ j = c THEN v ELSE Cell(sh, i, j)]]

\* Range.setValue on one cell: the grid grows to hold it
SetCell(sh, r, c, v) ==
  IF r \in 1..Len(sh) /\ c \in 1..Len(sh[r])
    THEN [sh EXCEPT ![r][c] = v]
    ELSE [i \in 1..Max(Len(sh), r) |->
            [j \in 1..Max(Width(sh), c) |-> IF i = r /\ j = c THEN v ELSE Cell(sh, i, j)]]

\* Sheet.getLastColumn / Sheet.getLastRow: the last column / row that has content
LastColumn(sh) ==
  LET used == {c \in 1..Width(sh) : \E r \in 1..Len(sh) : Cell(sh, r, c) # ""}
  IN IF used = {} THEN 0 ELSE CHOOSE c \in used : \A d \in used : d <= c

LastRow(sh) ==
  LET used == {r \in 1..Len(sh) : \E c \in 1..Width(sh) : Cell(sh, r, c) # ""}
  IN IF used = {} THEN 0 ELSE CHOOSE r \in used : \A q \in used : q <= r

-----------------------------------------------------------------------------
(* google-apps-script.js: doPost                                            *)

ScriptError(msg) == [error |-> msg, success |-> FALSE, updates |-> <<>>]

RankingColName(num) == "Annotator_" \o Char("123", num) \o "_Rankings"
CommentColName(num) == "Annotator_" \o Char("123", num) \o "_Comments"

\* sheetHeaders.findIndex(h => h.toString().trim().toLowerCase() === name.toLowerCase()) + 1
HeaderIndex(headers, name) ==
  FindIndex({i \in 1..Len(headers) : ToLower(Trim(headers[i])) = ToLower(name)})

ResolveRound_NoAdvance(st, num) ==
  LET rname == RankingColName(num)
      cname == CommentColName(num)
      rfound == HeaderIndex(st.headers, rname)
      s1 == IF rfound = 0
              THEN [st EXCEPT !.sh = SetCell(st.sh, 1, st.next, rname),
                              !.headers = Append(st.headers, rname),
                              !.rank[num] = st.next]
              ELSE [st EXCEPT !.rank[num] = rfound]
      cfound == HeaderIndex(s1.headers, cname)
  IN IF cfound = 0
       THEN [s1 EXCEPT !.sh = SetCell(s1.sh, 1, s1.next, cname),
                       !.headers = Append(s1.headers, cname),
                       !.next = s1.next + 1,
                       !.comm[num] = s1.next]
       ELSE [s1 EXCEPT !.comm[num] = cfound]

\* One pass of the find-or-create loop for round num. st holds the sheet, the local
\* sheetHeaders array, nextColIndex and the two column maps.
ResolveRound(st, num) ==
  LET rname == RankingColName(num)
      cname == CommentColName(num)
      rfound == HeaderIndex(st.headers, rname)
      s1 == IF rfound = 0
              THEN [st EXCEPT !.sh = SetCell(st.sh, 1, st.next, rname),
                              !.headers = Append(st.headers, rname),
                              !.next = st.next + 1,
                              !.rank[num] = st.next]
              ELSE [st EXCEPT !.rank[num] = rfound]
      cfound == HeaderIndex(s1.headers, cname)
  IN IF cfound = 0
       THEN [s1 EXCEPT !.sh = SetCell(s1.sh, 1, s1.next, cname),
                       !.headers = Append(s1.headers, cname),
                       !.next = s1.next + 1,
                       !.comm[num] = s1.next]
       ELSE [s1 EXCEPT !.comm[num] = cfound]

\* for (const num of annotatorNumbers): rounds 1, 2, 3 in order
ResolveColumns(sh, sheetHeaders, lastCol) ==
  LET st0 == [sh |-> sh, headers |-> sheetHeaders, next |-> lastCol + 1,
              rank |-> [n \in 1..3 |-> 0], comm |-> [n \in 1..3 |-> 0]]
  IN ResolveRound(ResolveRound(ResolveRound(st0, 1), 2), 3)

\* The row of the first id cell whose trimmed text equals the submitted id; 0 when none.
\* The scan starts at row 1, the header row.
FindRow(idValues, id) ==
  FindIndex({i \in 1..Len(idValues) : idValues[i] # "" /\ Trim(idValues[i]) = id})

\* !existingValue || existingValue.toString().trim() === ''
CellIsEmpty(v) == v = "" \/ Trim(v) = ""

\* Whether round num is the target for rowNum, judged on the column values read
\* before the loop over the annotations
RoundIsFree_Unread(rankingColumnValues, rowNum, num) == TRUE

RoundIsFree(rankingColumnValues, rowNum, num) ==
  LET valueIndex == rowNum - 2
  IN IF valueIndex >= 0 /\ valueIndex < Len(rankingColumnValues[num])
       THEN CellIsEmpty(rankingColumnValues[num][valueIndex + 1])
       ELSE TRUE

\* The first round, in the order 1, 2, 3, that is free; 0 when none (targetRound null)
TargetRound(rankingColumnValues, rowNum) ==
  IF \E n \in 1..3 : RoundIsFree(rankingColumnValues, rowNum, n)
    THEN CHOOSE n \in 1..3 : /\ RoundIsFree(rankingColumnValues, rowNum, n)
                             /\ \A m \in 1..(n - 1) : ~RoundIsFree(rankingColumnValues, rowNum, m)
    ELSE 0

\* The checks inside the try block; "" when the payload is accepted
PayloadError(rankings) ==
  IF Len(rankings) = 0 THEN "Rankings array is empty"
  ELSE IF \E i \in 1..Len(rankings) : rankings[i] # "" /\ Len(rankings[i]) > 20
    THEN "Received translation text instead of column names"
  ELSE IF Join(rankings) = "" \/ Trim(Join(rankings)) = ""
    THEN "Ranking string is empty after joining"
  ELSE ""

FailedUpdate(id, rowNum, msg) ==
  [id |-> id, row |-> rowNum, round |-> 0, success |-> FALSE, error |-> msg,
   ranking |-> "", comment |-> "", verifiedRanking |-> "", verifiedComment |-> ""]

CommitOne_Hinted(sh, cols, idValues, rankingColumnValues, ann) ==
  LET rowNum == ann.rowIndex
      target == TargetRound(rankingColumnValues, rowNum)
      perr == PayloadError(ann.rankings)
      rankingString == Join(ann.rankings)
      sh1 == SetCell(sh, rowNum, cols.rank[target], rankingString)
      sh2 == SetCell(sh1, rowNum, cols.comm[target], ann.comment)
  IN IF rowNum = 0
       THEN [sh |-> sh, update |-> FailedUpdate(ann.id, 0, "Row not found for ID")]
     ELSE IF target = 0
       THEN [sh |-> sh,
             update |-> FailedUpdate(ann.id, 0, "All 3 annotator rounds are already filled")]
     ELSE IF perr # ""
       THEN [sh |-> sh, update |-> FailedUpdate(ann.id, rowNum, perr)]
     ELSE [sh |-> sh2,
           update |-> [id |-> ann.id, row |-> rowNum, round |-> target, success |-> TRUE,
                       error |-> "", ranking |-> rankingString, comment |-> ann.comment,
                       verifiedRanking |-> Cell(sh2, rowNum, cols.rank[target]),
                       verifiedComment |-> Cell(sh2, rowNum, cols.comm[target])]]

CommitOne_FreshRead(sh, cols, idValues, rankingColumnValues, ann) ==
  LET rowNum == FindRow(idValues, ann.id)
      target == TargetRound([n \in 1..3 |-> [k \in 1..(Len(sh) - 1) |-> Cell(sh, k + 1, cols.rank[n])]],
                            rowNum)
      perr == PayloadError(ann.rankings)
      rankingString == Join(ann.rankings)
      sh1 == SetCell(sh, rowNum, cols.rank[target], rankingString)
      sh2 == SetCell(sh1, rowNum, cols.comm[target], ann.comment)
  IN IF rowNum = 0
       THEN [sh |-> sh, update |-> FailedUpdate(ann.id, 0, "Row not found for ID")]
     ELSE IF target = 0
       THEN [sh |-> sh,
             update |-> FailedUpdate(ann.id, 0, "All 3 annotator rounds are already filled")]
     ELSE IF perr # ""
       THEN [sh |-> sh, update |-> FailedUpdate(ann.id, rowNum, perr)]
     ELSE [sh |-> sh2,
           update |-> [id |-> ann.id, row |-> rowNum, round |-> target, success |-> TRUE,
                       error |-> "", ranking |-> rankingString, comment |-> ann.comment,
                       verifiedRanking |-> Cell(sh2, rowNum, cols.rank[target]),
                       verifiedComment |-> Cell(sh2, rowNum, cols.comm[target])]]

\* The body of the loop for one annotation: the sheet after it and its entry of updates
CommitOne(sh, cols, idValues, rankingColumnValues, ann) ==
  LET rowNum == FindRow(idValues, ann.id)
      target == TargetRound(rankingColumnValues, rowNum)
      perr == PayloadError(ann.rankings)
      rankingString == Join(ann.rankings)
      sh1 == SetCell(sh, rowNum, cols.rank[target], rankingString)
      sh2 == SetCell(sh1, rowNum, cols.comm[target], ann.comment)
  IN IF rowNum = 0
       THEN [sh |-> sh, update |-> FailedUpdate(ann.id, 0, "Row not found for ID")]
     ELSE IF target = 0
       THEN [sh |-> sh,
             update |-> FailedUpdate(ann.id, 0, "All 3 annotator rounds are already filled")]
     ELSE IF perr # ""
       THEN [sh |-> sh, update |-> FailedUpdate(ann.id, rowNum, perr)]
     ELSE [sh |-> sh2,
           update |-> [id |-> ann.id, row |-> rowNum, round |-> target, success |-> TRUE,
                       error |-> "", ranking |-> rankingString, comment |-> ann.comment,
                       verifiedRanking |-> Cell(sh2, rowNum, cols.rank[target]),
                       verifiedComment |-> Cell(sh2, rowNum, cols.comm[target])]]

\* An execution slot: idle, running the loop at annotation i, or failed before the loop
IdleExec ==
  [phase |-> "idle", origin |-> "", annotations |-> <<>>, i |-> 0,
   rank |-> <<0, 0, 0>>, comm |-> <<0, 0, 0>>, idValues |-> <<>>,
   rankingColumnValues |-> <<>>, updates |-> <<>>, failure |-> ""]

FailedExec(origin, annotations, msg) ==
  [IdleExec EXCEPT !.phase = "failed", !.origin = origin, !.annotations = annotations,
                   !.failure = msg]

\* doPost from its entry to the start of the loop over the annotations: the sheet with
\* the created header cells, and the execution with the columns and values it read
OpenExecution(sh, origin, annotations) ==
  LET lastCol == LastColumn(sh)
      sheetHeaders == [c \in 1..lastCol |-> Cell(sh, 1, c)]
      idColIndex == FindIndex({i \in 1..Len(sheetHeaders) : ToLower(sheetHeaders[i]) = "id"})
      cols == ResolveColumns(sh, sheetHeaders, lastCol)
      lastRow == LastRow(cols.sh)
  IN IF idColIndex = 0
       THEN [sheet |-> sh,
             exec |-> FailedExec(origin, annotations, "ID column not found in sheet headers")]
     ELSE IF lastRow - 1 < 1
       \* getRange(2, colIndex, 0, 1) throws; the created header cells stay
       THEN [sheet |-> cols.sh, exec |-> FailedExec(origin, annotations, "Unexpected error")]
     ELSE [sheet |-> cols.sh,
           exec |-> [phase |-> "running", origin |-> origin, annotations |-> annotations,
                     i |-> 1, rank |-> cols.rank, comm |-> cols.comm,
                     idValues |-> [r \in 1..lastRow |-> Cell(cols.sh, r, idColIndex)],
                     rankingColumnValues |->
                       [n \in 1..3 |->
                          [k \in 1..(lastRow - 1) |-> Cell(cols.sh, k + 1, cols.rank[n])]],
                     updates |-> <<>>, failure |-> ""]]

StepExecution_StopOnFailure(sh, ex) ==
  LET one == CommitOne(sh, ex, ex.idValues, ex.rankingColumnValues, ex.annotations[ex.i])
  IN [sheet |-> one.sh,
      exec |-> [ex EXCEPT !.i = IF one.update.success THEN ex.i + 1
                                ELSE Len(ex.annotations) + 1,
                          !.updates = Append(ex.updates, one.update)]]

\* One pass of for (const ann of annotations), up to and including its flush
StepExecution(sh, ex) ==
  LET one == CommitOne(sh, ex, ex.idValues, ex.rankingColumnValues, ex.annotations[ex.i])
  IN [sheet |-> one.sh,
      exec |-> [ex EXCEPT !.i = ex.i + 1, !.updates = Append(ex.updates, one.update)]]

ExecFinished(ex) ==
  \/ ex.phase = "failed"
  \/ ex.phase = "running" /\ ex.i > Len(ex.annotations)

\* The JSON doPost answers
ScriptResponse(ex) ==
  IF ex.phase = "failed" THEN ScriptError(ex.failure)
  ELSE [error |-> "", success |-> TRUE, updates |-> ex.updates]

-----------------------------------------------------------------------------
(* Sheets and requests the behaviours start from and draw on                *)

BaseHeader == <<"id", "sentence", "ad", "an", "bo", "ca", "op", "pa", "no">>

AnnotatorHeader ==
  <<"Annotator_1_Rankings", "Annotator_1_Comments", "Annotator_2_Rankings",
    "Annotator_2_Comments", "Annotator_3_Rankings", "Annotator_3_Comments">>

\* A sheet no commit has touched yet: the six cells after the candidates are blank
NoAnnotatorHeader == <<"", "", "", "", "", "">>

ColumnKeys == SubSeq(BaseHeader, 3, 9)

\* Rotation of a sequence by k places: one of the orders a random sort can give
Rotate(xs, k) ==
  [i \in 1..Len(xs) |-> xs[((i - 1 + k) % Len(xs)) + 1]]

IdOf(n) == "es-cu-" \o Char("0123456789", n + 1)

TextOf(id, key) == key \o " de " \o id

\* An earlier annotator's ranking and comment, as a commit leaves them
FilledRanking == Join(Rotate(ColumnKeys, 3))
FilledComment == "visto"

\* The round states of a row with its first f rounds annotated
Prefix(f) == [n \in 1..3 |-> IF n <= f THEN "full" ELSE "empty"]

\* A data row: id, sentence, the 7 candidate cells (blank where absent) and the three
\* rounds, each "empty", "full" (ranking and comment) or "rank" (ranking, no comment)
DataRow(id, absent, rounds) ==
  <<id, "frase " \o id>>
  \o [j \in 1..7 |-> IF j \in absent THEN "" ELSE TextOf(id, ColumnKeys[j])]
  \o [c \in 1..6 |->
        LET st == rounds[(c + 1) \div 2]
        IN IF c % 2 = 1 THEN (IF st = "empty" THEN "" ELSE FilledRanking)
           ELSE (IF st = "full" THEN FilledComment ELSE "")]

\* Sheets of the commit and session specifications: with or without the annotator
\* columns, every row with its 7 candidates, the first row with a prefix of its
\* rounds annotated
SmallSheets ==
  {<<BaseHeader \o NoAnnotatorHeader>> \o [i \in 1..n |-> DataRow(IdOf(i - 1), {}, Prefix(0))] :
     n \in 1..MaxDataRows}
  \cup
  UNION {{<<BaseHeader \o AnnotatorHeader>>
            \o [i \in 1..n |-> DataRow(IdOf(i - 1), {}, Prefix(IF i = 1 THEN f ELSE 0))] :
          f \in 0..3} : n \in 1..MaxDataRows}

Annotation(id, rankings, comment) ==
  [id |-> id, rowIndex |-> 2, rankings |-> rankings, comment |-> comment]

LongText == "una frase traducida entera"

\* Submissions a client may post to the script directly
AnnChoices ==
  { Annotation(IdOf(0), ColumnKeys, "bien"),
    Annotation(IdOf(0), Rotate(ColumnKeys, 1), ""),
    Annotation(IdOf(1), Rotate(ColumnKeys, 1), "bien"),
    Annotation(IdOf(0), <<"xx", "ca", "an", "bo", "op", "pa", "no">>, "bien"),
    Annotation(IdOf(0), <<"ad", "ad">>, "bien"),
    Annotation(IdOf(0), <<>>, "bien"),
    Annotation(IdOf(0), <<LongText, "ca">>, "bien"),
    Annotation(IdOf(9), ColumnKeys, "bien"),
    Annotation("id", ColumnKeys, "bien") }

\* Submissions that requests of several submissions are made of
CoreChoices ==
  { Annotation(IdOf(0), ColumnKeys, "bien"),
    Annotation(IdOf(0), Rotate(ColumnKeys, 1), ""),
    Annotation(IdOf(1), Rotate(ColumnKeys, 1), "bien"),
    Annotation(IdOf(0), <<>>, "bien"),
    Annotation(IdOf(9), ColumnKeys, "bien") }

Requests ==
  {<<>>} \cup {<<a>> : a \in AnnChoices}
  \cup UNION {[1..n -> CoreChoices] : n \in 2..MaxAnnotations}

-----------------------------------------------------------------------------
(* The commit handler as a process                                          *)

AllIdle == \A e \in DOMAIN execs : execs[e].phase = "idle"

\* A client posts `annotations` to the deployed script: doPost starts
PostBegin(e, annotations) ==
  /\ posts < MaxPosts
  /\ execs[e].phase = "idle"
  /\ \E r \in {OpenExecution(sheet, "direct", annotations)} :
       /\ sheet' = r.sheet
       /\ execs' = [execs EXCEPT ![e] = r.exec]
  /\ posts' = posts + 1
  /\ UNCHANGED <<scriptUrlSet, lastPost, pageVars, routeFetch>>

\* doPost handles its next annotation
PostStep(e) ==
  /\ execs[e].phase = "running"
  /\ execs[e].i <= Len(execs[e].annotations)
  /\ \E r \in {StepExecution(sheet, execs[e])} :
       /\ sheet' = r.sheet
       /\ execs' = [execs EXCEPT ![e] = r.exec]
  /\ UNCHANGED <<scriptUrlSet, posts, lastPost, pageVars, routeFetch>>

\* doPost of a directly posted request returns its JSON
PostEnd(e) ==
  /\ execs[e].origin = "direct"
  /\ ExecFinished(execs[e])
  /\ lastPost' = execs[e]
  /\ execs' = [execs EXCEPT ![e] = IdleExec]
  /\ UNCHANGED <<sheet, scriptUrlSet, posts, pageVars, routeFetch>>

\* No alert is open
NoAlert == [text |-> "", reranks |-> 0, comments |-> 0]

\* No answer read yet
NoResult == [status |-> 0, success |-> FALSE, error |-> "", updates |-> <<>>]

\* The page as it mounts: useState initial values, loadData started by useEffect; the
\* route has handled no request
PageInit ==
  /\ data = <<>>
  /\ loading = TRUE
  /\ submitting = FALSE
  /\ submitted = FALSE
  /\ shouldRedirect = FALSE
  /\ comments = [x \in {} |-> ""]
  /\ error = ""
  /\ alertMsg = NoAlert
  /\ inflight = <<>>
  /\ fetched = <<>>
  /\ shown = <<>>
  /\ result = NoResult
  /\ routeFetch = ""

InitCommit ==
  /\ sheet \in SmallSheets
  /\ scriptUrlSet = TRUE
  /\ posts = 0
  /\ lastPost = IdleExec
  /\ execs = <<IdleExec>>
  /\ PageInit

NextCommit ==
  \/ \E annotations \in Requests : AllIdle /\ PostBegin(1, annotations)
  \/ PostStep(1)
  \/ PostEnd(1)

\* The store and the commit handler alone: directly posted requests, executed one
\* after another
SpecCommit == InitCommit /\ [][NextCommit]_vars

-----------------------------------------------------------------------------
(* page.tsx: loadData                                                       *)

BatchSize == 5
CandidateCount == 7
MaxValidId == 49

\* The CSV export of the sheet as loadData reads it: one line per row up to the last
\* row with content, one field per column up to the last column with content, each
\* field trimmed by parseCSVLine
ParseCsv(sh) ==
  [r \in 1..LastRow(sh) |-> [c \in 1..LastColumn(sh) |-> Trim(Cell(sh, r, c))]]

\* findColumnIndex: the first header, in header order, that is one of the variants
FindColumnIndex(headers, variants) ==
  FindIndex({i \in 1..Len(headers) : ToLower(Trim(headers[i])) \in variants})

RankVariants(n) ==
  LET d == Char("123", n)
  IN {"annotator_" \o d \o "_rankings", "annotator " \o d \o " rankings",
      "annotator_" \o d, "annotator " \o d}

CommentVariants(n) ==
  LET d == Char("123", n)
  IN {"annotator_" \o d \o "_comments", "annotator " \o d \o " comments",
      "annotator_" \o d \o "_comment", "annotator " \o d \o " comment"}

RECURSIVE DigitRunEnd(_, _)
DigitRunEnd(s, i) == IF i < Len(s) /\ IsDigit(Char(s, i + 1)) THEN DigitRunEnd(s, i + 1) ELSE i

RECURSIVE DecimalValue(_, _, _)
DecimalValue(s, a, b) ==
  IF b < a THEN 0 ELSE 10 * DecimalValue(s, a, b - 1) + DigitValue(Char(s, b))

NumericId_FirstDigit(id) ==
  LET ds == {i \in 1..Len(id) : IsDigit(Char(id, i))}
      a == CHOOSE i \in ds : \A j \in ds : i <= j
  IN IF ds = {} THEN 0 ELSE DigitValue(Char(id, a))

\* parseInt(id.match(/\d+/)[0], 10); -1 stands for null (no digits)
NumericId(id) ==
  LET ds == {i \in 1..Len(id) : IsDigit(Char(id, i))}
      a == CHOOSE i \in ds : \A j \in ds : i <= j
  IN IF ds = {} THEN -1 ELSE DecimalValue(id, a, DigitRunEnd(id, a))

\* The header analysis at the top of loadData (1-based indices, 0 for -1)
HeaderInfo(headers) ==
  [idIndex |-> FindIndex({i \in 1..Len(headers) : ToLower(headers[i]) = "id"}),
   sentenceIndex |-> FindIndex({i \in 1..Len(headers) : ToLower(headers[i]) = "sentence"}),
   rankIndex |-> [n \in 1..3 |-> FindColumnIndex(headers, RankVariants(n))],
   commentIndex |-> [n \in 1..3 |-> FindColumnIndex(headers, CommentVariants(n))]]

Field(row, idx) == IF idx \in 1..Len(row) THEN Trim(row[idx]) ELSE ""

RoundComplete_MissingIsDone(row, info, n) ==
  LET rankValue == IF info.rankIndex[n] > 0 THEN Field(row, info.rankIndex[n]) ELSE ""
      commentValue == IF info.commentIndex[n] > 0 THEN Field(row, info.commentIndex[n]) ELSE ""
  IN IF info.rankIndex[n] > 0 /\ info.commentIndex[n] > 0
       THEN Len(rankValue) > 0 /\ Len(commentValue) > 0
       ELSE info.rankIndex[n] = 0 \/ Len(rankValue) > 0

\* annotatorNComplete
RoundComplete(row, info, n) ==
  LET rankValue == IF info.rankIndex[n] > 0 THEN Field(row, info.rankIndex[n]) ELSE ""
      commentValue == IF info.commentIndex[n] > 0 THEN Field(row, info.commentIndex[n]) ELSE ""
  IN IF info.rankIndex[n] > 0 /\ info.commentIndex[n] > 0
       THEN Len(rankValue) > 0 /\ Len(commentValue) > 0
       ELSE Len(rankValue) > 0

NeedsAnnotatorRound_NeverDone(row, info) ==
  IF ~RoundComplete(row, info, 1) THEN 1
  ELSE IF ~RoundComplete(row, info, 2) THEN 2
  ELSE 3

\* needsAnnotatorRound; 0 stands for null
NeedsAnnotatorRound(row, info) ==
  IF ~RoundComplete(row, info, 1) THEN 1
  ELSE IF ~RoundComplete(row, info, 2) THEN 2
  ELSE IF ~RoundComplete(row, info, 3) THEN 3
  ELSE 0

\* The body of the loop over the lines for line i (1-based; line 1 is the header):
\* keep tells whether the row is pushed to allRows
RowRecord(csv, info, i) ==
  LET row == csv[i]
      headers == csv[1]
      start == info.sentenceIndex + 1
      id == Field(row, info.idIndex)
      sentence == Field(row, info.sentenceIndex)
      numericId == NumericId(id)
      present == {j \in 1..CandidateCount :
                    Field(row, start + j - 1) # "" /\ ToLower(Field(headers, start + j - 1)) # ""}
      order == [k \in 1..Cardinality(present) |->
                  CHOOSE j \in present : Cardinality({m \in present : m < j}) = k - 1]
      needs == NeedsAnnotatorRound(row, info)
  IN [keep |-> /\ Len(row) >= start - 1 + CandidateCount
               /\ id # "" /\ sentence # ""
               /\ numericId >= 0 /\ numericId <= MaxValidId
               /\ needs # 0
               /\ present # {},
      id |-> id,
      sentence |-> sentence,
      translations |-> [k \in DOMAIN order |-> Field(row, start + order[k] - 1)],
      translationColumns |-> [k \in DOMAIN order |-> ToLower(Field(headers, start + order[k] - 1))],
      originalRowIndex |-> i,
      needsAnnotatorRound |-> needs]

\* allRows, in line order, before the per-row shuffle
AllRows(csv, info) ==
  SelectSeq([k \in 1..(Len(csv) - 1) |-> RowRecord(csv, info, k + 1)], LAMBDA r : r.keep)

CandidateRows_HighestFirst(allRows) ==
  LET of(n) == SelectSeq(allRows, LAMBDA r : r.needsAnnotatorRound = n)
  IN IF Len(of(3)) > 0 THEN of(3) ELSE IF Len(of(2)) > 0 THEN of(2) ELSE of(1)

\* candidateRows: the rows of the lowest needed round that has any
CandidateRows(allRows) ==
  LET of(n) == SelectSeq(allRows, LAMBDA r : r.needsAnnotatorRound = n)
  IN IF Len(of(1)) > 0 THEN of(1) ELSE IF Len(of(2)) > 0 THEN of(2) ELSE of(3)

\* A kept row as it is stored in `data`: shuffled by the given rotation, the needed
\* round dropped
BatchRow(r, k) ==
  [id |-> r.id, sentence |-> r.sentence, translations |-> r.translations,
   translationColumns |-> r.translationColumns,
   rankedTranslations |-> Rotate(r.translations, k),
   rankedColumnNames |-> Rotate(r.translationColumns, k),
   originalRowIndex |-> r.originalRowIndex]

\* shuffled.slice(0, 5) of the candidate rows, the random sort being a rotation
SelectBatch(candidateRows, kBatch, kRows) ==
  LET shuffled == Rotate(candidateRows, kBatch)
  IN [i \in 1..Min(BatchSize, Len(shuffled)) |-> BatchRow(shuffled[i], kRows)]

LoadError_Lenient(csv) ==
  IF Len(csv) < 2 THEN "No data found in sheet" ELSE ""

\* The message loadData throws on this export; "" when it goes through
LoadError(csv) ==
  IF Len(csv) < 2 THEN "No data found in sheet"
  ELSE IF HeaderInfo(csv[1]).idIndex = 0 \/ HeaderInfo(csv[1]).sentenceIndex = 0
    THEN "Required columns (id, sentence) not found"
  ELSE ""

\* loadData, from the answer of the fetch to its end
LoadDone(kBatch, kRows) ==
  /\ loading
  /\ \E csv \in {ParseCsv(sheet)} :
       \E info \in {HeaderInfo(csv[1])} :
         \E batch \in {SelectBatch(CandidateRows(AllRows(csv, info)), kBatch, kRows)} :
        /\ fetched' = csv
        /\ IF LoadError(csv) # ""
             THEN /\ error' = LoadError(csv)
                  /\ UNCHANGED <<data, shown>>
             ELSE /\ data' = batch
                  /\ shown' = [i \in DOMAIN batch |-> batch[i].rankedColumnNames]
                  /\ UNCHANGED error
  /\ loading' = FALSE
  /\ UNCHANGED <<storeVars, scriptUrlSet, submitting, submitted, shouldRedirect, comments,
                 alertMsg, inflight, result, routeFetch>>

\* loadData when the fetch of the export does not answer 200
LoadFail ==
  /\ loading
  /\ error' = "Failed to fetch Google Sheet"
  /\ loading' = FALSE
  /\ UNCHANGED <<storeVars, scriptUrlSet, data, submitting, submitted, shouldRedirect,
                 comments, alertMsg, inflight, fetched, shown, result, routeFetch>>

-----------------------------------------------------------------------------
(* page.tsx: the annotator's interaction and handleSubmit                   *)

\* The batch with its drag lists and comment boxes is on screen and no alert is open
Showing_AfterDone ==
  /\ ~loading
  /\ error = ""
  /\ alertMsg = NoAlert

Showing ==
  /\ ~loading
  /\ error = ""
  /\ ~(submitted /\ shouldRedirect)
  /\ alertMsg = NoAlert

\* The error screen with its Try Again button is on screen
ShowingError ==
  /\ ~loading
  /\ error # ""
  /\ ~(submitted /\ shouldRedirect)
  /\ alertMsg = NoAlert

\* Try Again: loadData starts again
TryAgain ==
  /\ ShowingError
  /\ loading' = TRUE
  /\ error' = ""
  /\ UNCHANGED <<storeVars, scriptUrlSet, data, submitting, submitted, shouldRedirect,
                 comments, alertMsg, inflight, fetched, shown, result, routeFetch>>

Move_Copy(xs, from, to) ==
  [k \in 1..Len(xs) |-> IF k = to + 1 THEN xs[from + 1] ELSE xs[k]]

\* Array.prototype.splice twice: remove the item at `from`, insert it at `to` (0-based)
Move(xs, from, to) ==
  LET rest == [k \in 1..(Len(xs) - 1) |-> IF k <= from THEN xs[k] ELSE xs[k + 1]]
  IN [k \in 1..Len(xs) |->
        IF k <= to THEN rest[k] ELSE IF k = to + 1 THEN xs[from + 1] ELSE rest[k - 1]]

DragEnd_OneList(rowIndex, from, to) ==
  /\ Showing
  /\ rowIndex \in 1..Len(data)
  /\ from < Len(data[rowIndex].rankedColumnNames)
  /\ to < Len(data[rowIndex].rankedColumnNames)
  /\ data' = [data EXCEPT ![rowIndex].rankedColumnNames = Move(@, from, to)]
  /\ UNCHANGED <<storeVars, scriptUrlSet, loading, submitting, submitted, shouldRedirect,
                 comments, error, alertMsg, inflight, fetched, shown, result, routeFetch>>

\* onDragEnd(result, rowIndex) with result.source.index = from and
\* result.destination.index = to
DragEnd(rowIndex, from, to) ==
  /\ Showing
  /\ rowIndex \in 1..Len(data)
  /\ from < Len(data[rowIndex].rankedColumnNames)
  /\ to < Len(data[rowIndex].rankedColumnNames)
  /\ data' = [data EXCEPT
                ![rowIndex].rankedTranslations = Move(@, from, to),
                ![rowIndex].rankedColumnNames = Move(@, from, to)]
  /\ UNCHANGED <<storeVars, scriptUrlSet, loading, submitting, submitted, shouldRedirect,
                 comments, error, alertMsg, inflight, fetched, shown, result, routeFetch>>

\* comments[id] || ''
CommentOf(id) == IF id \in DOMAIN comments THEN comments[id] ELSE ""

SetComment_Saving(rowIndex, text) ==
  /\ Showing
  /\ rowIndex \in 1..Len(data)
  /\ comments' = [x \in DOMAIN comments \cup {data[rowIndex].id} |->
                    IF x = data[rowIndex].id THEN text ELSE comments[x]]
  /\ sheet' = SetCell(sheet, data[rowIndex].originalRowIndex, Width(sheet), text)
  /\ UNCHANGED <<posts, lastPost, execs, scriptUrlSet, data, loading, submitting, submitted,
                 shouldRedirect, error, alertMsg, inflight, fetched, shown, result, routeFetch>>

\* The textarea's onChange for the sentence at rowIndex
SetComment(rowIndex, text) ==
  /\ Showing
  /\ rowIndex \in 1..Len(data)
  /\ comments' = [x \in DOMAIN comments \cup {data[rowIndex].id} |->
                    IF x = data[rowIndex].id THEN text ELSE comments[x]]
  /\ UNCHANGED <<storeVars, scriptUrlSet, data, loading, submitting, submitted,
                 shouldRedirect, error, alertMsg, inflight, fetched, shown, result, routeFetch>>

\* hasReranked: JSON.stringify(row.rankedColumnNames) !== JSON.stringify(row.translationColumns)
HasReranked(row) == row.rankedColumnNames # row.translationColumns

\* hasComment
HasComment(row) == Len(Trim(CommentOf(row.id))) > 0

\* checkAllInteractions
checkAllInteractions ==
  IF Len(data) = 0 THEN FALSE
  ELSE \A k \in 1..Len(data) : HasReranked(data[k]) /\ HasComment(data[k])

canSubmit == checkAllInteractions

NameLengthLimit == 10

\* The body handleSubmit sends: one annotation per row of the batch
BuildAnnotations ==
  [k \in 1..Len(data) |->
     [id |-> data[k].id, rowIndex |-> data[k].originalRowIndex,
      rankings |-> data[k].rankedColumnNames, comment |-> CommentOf(data[k].id)]]

IncompleteAlert ==
  [text |-> "Please complete all interactions before submitting",
   reranks |-> Cardinality({k \in 1..Len(data) : ~HasReranked(data[k])}),
   comments |-> Cardinality({k \in 1..Len(data) : ~HasComment(data[k])})]

\* handleSubmit, up to the fetch of /api/update-sheet. The button that calls it is
\* disabled while submitting or submitted; the handler tests data.length and
\* canSubmit itself. Its allRanked and invalidRows tests cannot fail: loadData keeps
\* only rows with at least one candidate
HandleSubmit ==
  /\ Showing
  /\ ~submitting
  /\ ~submitted
  /\ IF Len(data) = 0
       THEN /\ alertMsg' = [NoAlert EXCEPT !.text = "No data to submit"]
            /\ UNCHANGED <<submitting, error, inflight>>
     ELSE IF ~canSubmit
       THEN /\ alertMsg' = IncompleteAlert
            /\ UNCHANGED <<submitting, error, inflight>>
     ELSE IF \E k \in 1..Len(data) : \E j \in 1..Len(data[k].rankedColumnNames) :
               Len(data[k].rankedColumnNames[j]) > NameLengthLimit
       \* the throw inside the try block: catch sets the error, finally ends submitting
       THEN /\ error' = "Rankings appear to contain translation text instead of column names"
            /\ UNCHANGED <<submitting, alertMsg, inflight>>
     ELSE /\ submitting' = TRUE
          /\ error' = ""
          /\ inflight' = BuildAnnotations
          /\ UNCHANGED alertMsg
  /\ UNCHANGED <<storeVars, scriptUrlSet, data, loading, submitted, shouldRedirect,
                 comments, fetched, shown, result, routeFetch>>

\* The annotator closes the alert
DismissAlert ==
  /\ alertMsg # NoAlert
  /\ alertMsg' = NoAlert
  /\ UNCHANGED <<storeVars, scriptUrlSet, data, loading, submitting, submitted,
                 shouldRedirect, comments, error, inflight, fetched, shown, result, routeFetch>>

-----------------------------------------------------------------------------
(* route.ts: POST /api/update-sheet, and the rest of handleSubmit            *)

PageExecRunning == \E e \in DOMAIN execs : execs[e].origin = "page"

\* NextResponse.json(body, {status}): the status and the fields of the body that
\* handleSubmit or this model reads; updates are the script's own, when it answered
RouteJson(status, success, msg, updates) ==
  [status |-> status, success |-> success, error |-> msg, updates |-> updates]

SubmitReturns_NoFinally(res) ==
  /\ IF res.status # 200
       THEN /\ error' = res.error
            /\ UNCHANGED <<submitted, shouldRedirect, result, submitting>>
       ELSE /\ submitted' = TRUE
            /\ shouldRedirect' = TRUE
            /\ result' = res
            /\ submitting' = FALSE
            /\ UNCHANGED error
  /\ inflight' = <<>>

\* handleSubmit after its await: result = await response.json(); !response.ok throws
\* and catch sets the error, otherwise setSubmitted(true), setShouldRedirect(true);
\* finally setSubmitting(false)
SubmitReturns(res) ==
  /\ IF res.status # 200
       THEN /\ error' = res.error
            /\ UNCHANGED <<submitted, shouldRedirect, result>>
       ELSE /\ submitted' = TRUE
            /\ shouldRedirect' = TRUE
            /\ result' = res
            /\ UNCHANGED error
  /\ submitting' = FALSE
  /\ inflight' = <<>>

\* The route forwards the body to the Apps Script: doPost starts
RouteForward(e) ==
  /\ inflight # <<>>
  /\ ~PageExecRunning
  /\ scriptUrlSet
  /\ posts < MaxPosts
  /\ execs[e].phase = "idle"
  /\ \E r \in {OpenExecution(sheet, "page", inflight)} :
       /\ sheet' = r.sheet
       /\ execs' = [execs EXCEPT ![e] = r.exec]
  /\ posts' = posts + 1
  /\ routeFetch' = "script"
  /\ UNCHANGED <<scriptUrlSet, lastPost, pageVars>>

\* The answers of the route when the script is not reached, or answers with an HTML
\* page, or with a body that is not JSON
RouteFailures ==
  {RouteJson(500, FALSE, "Failed to update sheet: fetch failed", <<>>),
   RouteJson(403, FALSE, "Google Apps Script authorization required", <<>>),
   RouteJson(500, FALSE, "Invalid response from Google Apps Script", <<>>)}

RouteFail(res) ==
  /\ inflight # <<>>
  /\ ~PageExecRunning
  /\ scriptUrlSet
  /\ SubmitReturns(res)
  /\ routeFetch' = "script"
  /\ UNCHANGED <<storeVars, scriptUrlSet, data, loading, comments, alertMsg, fetched, shown>>

\* No GOOGLE_APPS_SCRIPT_URL: the route reads the export and answers 200 with
\* success: false, or 500 on an export without a data row or an id column
RouteFallback ==
  /\ inflight # <<>>
  /\ ~scriptUrlSet
  /\ \E csv \in {ParseCsv(sheet)} :
       IF Len(csv) < 2
         THEN SubmitReturns(RouteJson(500, FALSE, "Sheet appears to be empty", <<>>))
       ELSE IF FindIndex({i \in 1..Len(csv[1]) : ToLower(csv[1][i]) = "id"}) = 0
         THEN SubmitReturns(RouteJson(500, FALSE, "ID column not found in sheet", <<>>))
       ELSE SubmitReturns(RouteJson(200, FALSE, "", <<>>))
  /\ routeFetch' = "csv"
  /\ UNCHANGED <<storeVars, scriptUrlSet, data, loading, comments, alertMsg, fetched, shown>>

RouteAnswer_Swallow(json) == RouteJson(200, TRUE, "", json.updates)

\* What the route answers to the JSON of doPost: 500 when it has a top-level error,
\* otherwise 200 with success: true and the JSON inside
RouteAnswer(json) ==
  IF json.error # ""
    THEN RouteJson(500, FALSE, "Failed to update sheet: " \o json.error, <<>>)
    ELSE RouteJson(200, TRUE, "", json.updates)

\* doPost returns, the route answers, and handleSubmit goes on after its await
SubmitDone(e) ==
  /\ execs[e].origin = "page"
  /\ ExecFinished(execs[e])
  /\ SubmitReturns(RouteAnswer(ScriptResponse(execs[e])))
  /\ lastPost' = execs[e]
  /\ execs' = [execs EXCEPT ![e] = IdleExec]
  /\ UNCHANGED <<sheet, scriptUrlSet, posts, data, loading, comments, alertMsg, fetched, shown,
                 routeFetch>>

\* doPost returns but its answer does not reach the route (the fetch rejects): the
\* route answers 500
ResponseLost(e) ==
  /\ execs[e].origin = "page"
  /\ ExecFinished(execs[e])
  /\ SubmitReturns(RouteJson(500, FALSE, "Failed to update sheet: fetch failed", <<>>))
  /\ lastPost' = execs[e]
  /\ execs' = [execs EXCEPT ![e] = IdleExec]
  /\ UNCHANGED <<sheet, scriptUrlSet, posts, data, loading, comments, alertMsg, fetched, shown,
                 routeFetch>>

-----------------------------------------------------------------------------
(* The whole system: one annotator's page, the route, the script, and other  *)
(* clients of the script                                                    *)

CommentTexts == {"  ", "bien"}

\* What another annotator's session posts meanwhile
OtherRequests == {<<Annotation(IdOf(0), Rotate(ColumnKeys, 2), "otro")>>}

\* A sheet whose id header has a trailing blank: the CSV parser of the page trims it,
\* the script compares it untrimmed
SpacedIdSheets ==
  {<<[BaseHeader \o AnnotatorHeader EXCEPT ![1] = "id "], DataRow(IdOf(0), {}, Prefix(0))>>}

Init ==
  /\ sheet \in SmallSheets \cup SpacedIdSheets
  /\ scriptUrlSet \in BOOLEAN
  /\ posts = 0
  /\ lastPost = IdleExec
  /\ execs = <<IdleExec>>
  /\ PageInit

Next ==
  \/ \E kBatch \in 0..MaxShuffle, kRows \in 0..MaxShuffle : LoadDone(kBatch, kRows)
  \/ LoadFail
  \/ TryAgain
  \/ \E rowIndex \in 1..BatchSize, from \in 0..MaxDragIndex, to \in 0..MaxDragIndex :
       DragEnd(rowIndex, from, to)
  \/ \E rowIndex \in 1..BatchSize, text \in CommentTexts : SetComment(rowIndex, text)
  \/ HandleSubmit
  \/ DismissAlert
  \/ AllIdle /\ RouteForward(1)
  \/ \E res \in RouteFailures : RouteFail(res)
  \/ RouteFallback
  \/ PostStep(1)
  \/ SubmitDone(1)
  \/ ResponseLost(1)
  \/ \E annotations \in OtherRequests : AllIdle /\ PostBegin(1, annotations)
  \/ PostEnd(1)

Spec == Init /\ [][Next]_vars

-----------------------------------------------------------------------------
(* The loader alone, on sheets of up to MaxLoadRows data rows               *)

RowKinds == {"empty", "r1", "r12", "r123", "rank1", "short", "none",
             "id99", "idNoDigits", "id49", "id50"}

\* The id of a row of the given kind: the id of its position, or an id at and beyond
\* the ends of the range loadData accepts
KindId(id, kind) ==
  IF kind = "id99" THEN "99"
  ELSE IF kind = "idNoDigits" THEN "es-cu"
  ELSE IF kind = "id49" THEN "es-cu-49"
  ELSE IF kind = "id50" THEN "es-cu-50"
  ELSE id

\* A data row of the given kind: rounds annotated so far ("rank1": round 1 with a
\* ranking and no comment, as a commit with an empty comment leaves it), or a row
\* with one ("short") or all ("none") of its candidate cells blank, or an untouched
\* row with one of the ids of KindId
KindRow(id, kind) ==
  DataRow(KindId(id, kind),
          IF kind = "short" THEN {3} ELSE IF kind = "none" THEN 1..7 ELSE {},
          IF kind = "r1" THEN Prefix(1)
          ELSE IF kind = "r12" THEN Prefix(2)
          ELSE IF kind = "r123" THEN Prefix(3)
          ELSE IF kind = "rank1" THEN <<"rank", "empty", "empty">>
          ELSE Prefix(0))

\* Sheets with the annotator columns and n data rows, the first `split` of kind a and
\* the others of kind b
LoadSheets ==
  {<<BaseHeader \o AnnotatorHeader>>
     \o [i \in 1..n |-> KindRow(IdOf(i - 1), IF i <= split THEN a ELSE b)] :
   n \in 0..MaxLoadRows, split \in 0..MaxLoadRows, a \in RowKinds, b \in RowKinds}

\* Header rows that lack a column loadData looks for: the id column, the sentence
\* column, the ranking column of one round, or both columns of one round
LoadHeaders ==
  {[BaseHeader \o AnnotatorHeader EXCEPT ![1] = "ident"],
   [BaseHeader \o AnnotatorHeader EXCEPT ![2] = "text"]}
  \cup {[BaseHeader \o AnnotatorHeader EXCEPT ![8 + 2 * n] = ""] : n \in 1..3}
  \cup {[BaseHeader \o AnnotatorHeader EXCEPT ![8 + 2 * n] = "", ![9 + 2 * n] = ""] : n \in 1..3}

\* Sheets with such a header and one or two data rows of one kind
HeaderSheets ==
  {<<h>> \o [i \in 1..n |-> KindRow(IdOf(i - 1), a)] :
   h \in LoadHeaders, n \in 1..2, a \in {"empty", "r1", "r12", "r123"}}

InitLoad ==
  /\ sheet \in LoadSheets \cup HeaderSheets
  /\ scriptUrlSet = TRUE
  /\ posts = 0
  /\ lastPost = IdleExec
  /\ execs = <<IdleExec>>
  /\ PageInit

NextLoad ==
  \/ \E kBatch \in 0..MaxShuffle, kRows \in 0..MaxShuffle : LoadDone(kBatch, kRows)
  \/ LoadFail
  \/ TryAgain

\* The page loading and reloading a sheet that nobody writes meanwhile
SpecLoad == InitLoad /\ [][NextLoad]_vars

\* loadData ends: the promise of fetch settles, and the code after it runs to the end
\* of its try or catch block
LoadEnds ==
  \/ LoadFail
  \/ \E kBatch \in 0..MaxShuffle, kRows \in 0..MaxShuffle : LoadDone(kBatch, kRows)

\* The loader on the sheets with a column missing, on a sheet with the header row
\* only, and on complete sheets of one or two rows
InitLoadFair ==
  /\ sheet \in HeaderSheets
              \cup {<<BaseHeader \o AnnotatorHeader>>
                      \o [i \in 1..n |-> KindRow(IdOf(i - 1), a)] :
                    n \in 0..2, a \in {"empty", "r123", "id99"}}
  /\ scriptUrlSet = TRUE
  /\ posts = 0
  /\ lastPost = IdleExec
  /\ execs = <<IdleExec>>
  /\ PageInit

\* The loader with every started load ending
SpecLoadFair == InitLoadFair /\ [][NextLoad]_vars /\ WF_vars(LoadEnds)

-----------------------------------------------------------------------------
(* One submit from the press of the button to the end of handleSubmit        *)

\* Sheets for one submit: one or two untouched rows; one row under a candidate header
\* longer than the names handleSubmit accepts; one row under an id header that the
\* script does not find
SubmitSheets ==
  {<<BaseHeader \o AnnotatorHeader>> \o [i \in 1..n |-> DataRow(IdOf(i - 1), {}, Prefix(0))] :
     n \in 1..2}
  \cup {<<[BaseHeader \o AnnotatorHeader EXCEPT ![3] = "adaptacion_larga"],
          DataRow(IdOf(0), {}, Prefix(0))>>}
  \cup SpacedIdSheets

InitSubmit ==
  /\ sheet \in SubmitSheets
  /\ scriptUrlSet \in BOOLEAN
  /\ posts = 0
  /\ lastPost = IdleExec
  /\ execs = <<IdleExec>>
  /\ PageInit

\* What happens to a request in flight: the route and the script go on until
\* handleSubmit has its answer
SubmitProgress ==
  \/ \E res \in RouteFailures : RouteFail(res)
  \/ SubmitDone(1)
  \/ ResponseLost(1)
  \/ PostStep(1)
  \/ RouteFallback
  \/ RouteForward(1)

NextSubmit ==
  \/ \E kBatch \in 0..MaxShuffle, kRows \in 0..MaxShuffle : LoadDone(kBatch, kRows)
  \/ \E rowIndex \in 1..BatchSize, from \in 0..MaxDragIndex, to \in 0..MaxDragIndex :
       DragEnd(rowIndex, from, to)
  \/ \E rowIndex \in 1..BatchSize, text \in CommentTexts : SetComment(rowIndex, text)
  \/ HandleSubmit
  \/ DismissAlert
  \/ SubmitProgress

\* The session up to the end of its submit, every awaited call of handleSubmit and of
\* the route settling
SpecSubmitFair == InitSubmit /\ [][NextSubmit]_vars /\ WF_vars(SubmitProgress)

-----------------------------------------------------------------------------
(* route.ts alone: requests that any client posts to /api/update-sheet       *)

\* The values the annotations field of a request body may have
JsUndefined == [kind |-> "undefined", text |-> "", items |-> <<>>]
JsNull == [kind |-> "null", text |-> "", items |-> <<>>]
JsString(t) == [kind |-> "string", text |-> t, items |-> <<>>]
JsArray(items) == [kind |-> "array", text |-> "", items |-> items]

\* !v
Falsy(v) == v.kind \in {"undefined", "null"} \/ (v.kind = "string" /\ v.text = "")

\* Array.isArray(v)
IsArray(v) == v.kind = "array"

InvalidAnnotations_AllowEmpty(v) == Falsy(v) \/ ~IsArray(v)

\* The test of the route on body.annotations
InvalidAnnotations(v) == Falsy(v) \/ ~IsArray(v) \/ Len(v.items) = 0

\* Lists of submissions a client posts to the route
RouteRequests ==
  { <<Annotation(IdOf(0), ColumnKeys, "bien")>>,
    <<Annotation(IdOf(1), Rotate(ColumnKeys, 1), "bien")>>,
    <<Annotation(IdOf(0), Rotate(ColumnKeys, 1), "bien"), Annotation(IdOf(9), ColumnKeys, "")>> }

\* Request bodies: one that request.json() or body.annotations throws on (not JSON, or
\* null), and JSON objects without the field, with null, a string, an empty array, or
\* a list of submissions in it
RouteBodies ==
  {[parsed |-> FALSE, annotations |-> JsUndefined]}
  \cup {[parsed |-> TRUE, annotations |-> v] :
          v \in {JsUndefined, JsNull, JsString(""), JsString("ad,an"), JsArray(<<>>)}
                \cup {JsArray(r) : r \in RouteRequests}}

\* The answer of the fallback of the route to the export it fetched
FallbackAnswer(csv) ==
  IF Len(csv) < 2
    THEN RouteJson(500, FALSE, "Sheet appears to be empty", <<>>)
  ELSE IF FindIndex({i \in 1..Len(csv[1]) : ToLower(csv[1][i]) = "id"}) = 0
    THEN RouteJson(500, FALSE, "ID column not found in sheet", <<>>)
  ELSE RouteJson(200, FALSE, "", <<>>)

\* POST of the route from its entry to its first return or to the start of doPost: the
\* body is read and tested, then the script is called, or the export is fetched
RoutePost(body) ==
  /\ AllIdle
  /\ IF ~body.parsed
       THEN /\ result' = RouteJson(500, FALSE, "Failed to process annotations", <<>>)
            /\ routeFetch' = ""
            /\ UNCHANGED storeVars
     ELSE IF InvalidAnnotations(body.annotations)
       THEN /\ result' = RouteJson(400, FALSE, "Invalid annotations data", <<>>)
            /\ routeFetch' = ""
            /\ UNCHANGED storeVars
     ELSE IF scriptUrlSet
       THEN /\ posts < MaxPosts
            /\ routeFetch' = "script"
            /\ \/ /\ \E res \in RouteFailures : result' = res
                  /\ UNCHANGED storeVars
               \/ /\ \E r \in {OpenExecution(sheet, "route", body.annotations.items)} :
                       /\ sheet' = r.sheet
                       /\ execs' = [execs EXCEPT ![1] = r.exec]
                  /\ posts' = posts + 1
                  /\ UNCHANGED <<lastPost, result>>
     ELSE /\ routeFetch' = "csv"
          /\ \E csv \in {ParseCsv(sheet)} : result' = FallbackAnswer(csv)
          /\ UNCHANGED storeVars
  /\ UNCHANGED <<scriptUrlSet, data, loading, submitting, submitted, shouldRedirect,
                 comments, error, alertMsg, inflight, fetched, shown>>

\* doPost returns and the route answers its client
RouteReturn(e) ==
  /\ execs[e].origin = "route"
  /\ ExecFinished(execs[e])
  /\ result' = RouteAnswer(ScriptResponse(execs[e]))
  /\ lastPost' = execs[e]
  /\ execs' = [execs EXCEPT ![e] = IdleExec]
  /\ UNCHANGED <<sheet, scriptUrlSet, posts, data, loading, submitting, submitted,
                 shouldRedirect, comments, error, alertMsg, inflight, fetched, shown,
                 routeFetch>>

InitRoute ==
  /\ sheet \in SmallSheets \cup SpacedIdSheets
  /\ scriptUrlSet \in BOOLEAN
  /\ posts = 0
  /\ lastPost = IdleExec
  /\ execs = <<IdleExec>>
  /\ PageInit

NextRoute ==
  \/ \E body \in RouteBodies : RoutePost(body)
  \/ PostStep(1)
  \/ RouteReturn(1)

\* The route and the script behind it, requests handled one after another
SpecRoute == InitRoute /\ [][NextRoute]_vars

-----------------------------------------------------------------------------
(* The annotator's editing alone: load, drag, comment, press Submit          *)

MaxEditIndex == 2

\* Sheets of one or two rows, each complete or with its third candidate cell blank
EditSheets ==
  {<<BaseHeader \o AnnotatorHeader>> \o [i \in 1..n |-> KindRow(IdOf(i - 1), kinds[i])] :
   n \in 1..2, kinds \in [1..2 -> {"empty", "short"}]}

InitEdit ==
  /\ sheet \in EditSheets
  /\ scriptUrlSet = TRUE
  /\ posts = 0
  /\ lastPost = IdleExec
  /\ execs = <<IdleExec>>
  /\ PageInit

NextEdit ==
  \/ \E kBatch \in 0..MaxShuffle, kRows \in 0..MaxShuffle : LoadDone(kBatch, kRows)
  \/ \E rowIndex \in 1..BatchSize, from \in 0..MaxEditIndex, to \in 0..MaxEditIndex :
       DragEnd(rowIndex, from, to)
  \/ \E rowIndex \in 1..BatchSize : SetComment(rowIndex, "bien")
  \/ HandleSubmit
  \/ DismissAlert

\* One annotator working on a batch up to the moment the request leaves the page
SpecEdit == InitEdit /\ [][NextEdit]_vars

-----------------------------------------------------------------------------
(* Concurrent executions of doPost. The script takes no lock, so two executions  *)
(* run at once and interleave between their calls on the sheet.                  *)

MaxExecutions == 2

\* Requests of the concurrent clients: one submission each, for the first sentence
\* with two different rankings, or for the second sentence
RaceRequests ==
  { <<Annotation(IdOf(0), ColumnKeys, "bien")>>,
    <<Annotation(IdOf(0), Rotate(ColumnKeys, 2), "otro")>>,
    <<Annotation(IdOf(1), Rotate(ColumnKeys, 1), "bien")>>,
    <<Annotation(IdOf(0), <<>>, "bien")>> }

\* One pass of the loop up to and including SpreadsheetApp.flush(): the two cells are
\* written, the read-back is still to come. A pass that fails has no more to do.
PostWrite(e) ==
  /\ execs[e].phase = "running"
  /\ execs[e].i <= Len(execs[e].annotations)
  /\ \E one \in {CommitOne(sheet, execs[e], execs[e].idValues,
                            execs[e].rankingColumnValues, execs[e].annotations[execs[e].i])} :
       /\ sheet' = one.sh
       /\ execs' = [execs EXCEPT ![e] =
                      IF one.update.success
                        THEN [@ EXCEPT !.phase = "verifying",
                                       !.updates = Append(@, one.update)]
                        ELSE [@ EXCEPT !.i = @ + 1, !.updates = Append(@, one.update)]]
  /\ UNCHANGED <<scriptUrlSet, posts, lastPost, pageVars, routeFetch>>

\* The rest of the pass: getValue on both cells and updates.push
PostVerify(e) ==
  /\ execs[e].phase = "verifying"
  /\ \E k \in {Len(execs[e].updates)} :
       \E u \in {execs[e].updates[k]} :
         execs' = [execs EXCEPT ![e] =
                     [@ EXCEPT !.phase = "running",
                               !.i = @ + 1,
                               !.updates[k] =
                                 [u EXCEPT !.verifiedRanking =
                                             Cell(sheet, u.row, execs[e].rank[u.round]),
                                           !.verifiedComment =
                                             Cell(sheet, u.row, execs[e].comm[u.round])]]]
  /\ UNCHANGED <<sheet, scriptUrlSet, posts, lastPost, pageVars, routeFetch>>

InitRace ==
  /\ sheet \in SmallSheets
  /\ scriptUrlSet = TRUE
  /\ posts = 0
  /\ lastPost = IdleExec
  /\ execs = [e \in 1..MaxExecutions |-> IdleExec]
  /\ PageInit

NextRace ==
  \/ \E e \in 1..MaxExecutions, annotations \in RaceRequests : PostBegin(e, annotations)
  \/ \E e \in 1..MaxExecutions : PostWrite(e)
  \/ \E e \in 1..MaxExecutions : PostVerify(e)
  \/ \E e \in 1..MaxExecutions : PostEnd(e)

\* Clients posting to the script at the same time
SpecRace == InitRace /\ [][NextRace]_vars

-----------------------------------------------------------------------------
(* Properties of the commit handler                                         *)

DataRows(sh) == 2..Len(sh)

\* The column the script resolves as round n's ranking column (0 when absent)
RankingColumn(sh, n) == HeaderIndex(sh[1], RankingColName(n))

RankingCell(sh, r, n) == Cell(sh, r, RankingColumn(sh, n))

\* The column keys of the candidates present in row r
CandidateKeys(sh, r) ==
  LET present == {j \in 1..7 : Trim(Cell(sh, r, 2 + j)) # ""}
  IN {ColumnKeys[j] : j \in present}

IsPermutationOfKeys(rankings, keys) ==
  /\ Len(rankings) = Cardinality(keys)
  /\ {rankings[i] : i \in 1..Len(rankings)} = keys

\* C1 (as claimed): a non-empty ranking cell of a data row is never written again:
\* every step leaves it with the text it had.
C1_RoundMonotonic ==
  [][\A r \in DataRows(sheet), n \in 1..3 :
       (RankingColumn(sheet, n) # 0 /\ ~CellIsEmpty(RankingCell(sheet, r, n)))
         => Cell(sheet', r, RankingColumn(sheet, n)) = RankingCell(sheet, r, n)]_vars

\* The rows on which the execution ex found all three ranking cells empty when it read them
ReadAllEmpty(ex, r) ==
  /\ ex.phase = "running"
  /\ r - 1 \in 1..Len(ex.rankingColumnValues[1])
  /\ \A n \in 1..3 : CellIsEmpty(ex.rankingColumnValues[n][r - 1])

SuccessfulRounds(ex, r) ==
  {ex.updates[j].round : j \in {k \in 1..Len(ex.updates) :
                                   ex.updates[k].success /\ ex.updates[k].row = r}}

\* C2: of two requests executed one right after the other, the second reading the
\* sheet after the first has flushed, that both commit a submission for a data row
\* whose three rounds the first one read as empty, the first writes round 1 and the
\* second round 2.
C2_SequentialRequestsTakeRounds1And2 ==
  \A r \in DataRows(sheet) :
    (/\ ReadAllEmpty(lastPost, r)
     /\ SuccessfulRounds(lastPost, r) # {}
     /\ SuccessfulRounds(execs[1], r) # {})
    => /\ SuccessfulRounds(lastPost, r) = {1}
       /\ SuccessfulRounds(execs[1], r) = {2}

C2_Witness ==
  \E r \in DataRows(sheet) :
    /\ ReadAllEmpty(lastPost, r)
    /\ SuccessfulRounds(lastPost, r) = {1}
    /\ SuccessfulRounds(execs[1], r) = {2}
    /\ ~CellIsEmpty(RankingCell(sheet, r, 1))
    /\ ~CellIsEmpty(RankingCell(sheet, r, 2))
    /\ RankingCell(sheet, r, 1) # RankingCell(sheet, r, 2)

\* C6 (as claimed): every submission reported with success = true carries a ranking
\* that is a permutation of the candidate column keys of its row.
C6_AcceptedIsPermutation ==
  \A e \in DOMAIN execs :
    \A j \in 1..Len(execs[e].updates) :
      execs[e].updates[j].success
        => IsPermutationOfKeys(execs[e].annotations[j].rankings,
                               CandidateKeys(sheet, execs[e].updates[j].row))

-----------------------------------------------------------------------------
(* Properties of the session                                                *)

\* The answer handleSubmit went on with reports every row of the batch as committed
AllCommitted ==
  /\ result.success
  /\ Len(result.updates) = Len(data)
  /\ \A j \in 1..Len(result.updates) :
       /\ result.updates[j].success
       /\ result.updates[j].id = data[j].id

\* C3 (as claimed): the session is Done (submitted) only if every submission of its
\* batch was committed successfully to the sheet.
C3_DoneOnlyIfAllCommitted == submitted => AllCommitted

\* The gate as the claims state it: a batch, and for every sentence a current order
\* that differs from the order loadData first displayed and a comment that is not
\* blank
GateSatisfied ==
  /\ Len(data) > 0
  /\ \A k \in 1..Len(data) :
       /\ data[k].rankedColumnNames # shown[k]
       /\ Len(Trim(CommentOf(data[k].id))) > 0

\* C4 (as claimed): canSubmit is true exactly when the batch is non-empty and every
\* sentence has an order different from its first displayed order and a comment that
\* is non-empty after trimming.
C4_CanSubmitIffGate == (~loading /\ error = "") => (canSubmit <=> GateSatisfied)

\* C5 (as claimed): a call of handleSubmit while the gate is not satisfied sends no
\* request and leaves the batch, the rankings, the comments, submitting, submitted,
\* error and the sheet as they were.
C5_GateFailureSendsNothing ==
  [][(~GateSatisfied /\ HandleSubmit)
       => UNCHANGED <<data, comments, submitting, submitted, error, inflight, sheet>>]_vars

-----------------------------------------------------------------------------
(* Properties of the loader                                                 *)

\* A load has gone through and its batch is in `data`
Loaded == ~loading /\ error = "" /\ Len(fetched) >= 2

\* The needed round as the claims state it: the first round whose ranking cell is
\* empty, whatever the comment cells hold; 0 when no ranking cell is empty
FirstEmptyRanking(line, info) ==
  LET empty(n) == info.rankIndex[n] = 0 \/ Field(line, info.rankIndex[n]) = ""
  IN IF empty(1) THEN 1 ELSE IF empty(2) THEN 2 ELSE IF empty(3) THEN 3 ELSE 0

\* The rows loadData keeps whose needed round, so stated, is some round
EligibleLines(csv, info) ==
  LET kept == AllRows(csv, info)
  IN {kept[i].originalRowIndex : i \in
        {j \in 1..Len(kept) : FirstEmptyRanking(csv[kept[j].originalRowIndex], info) # 0}}

\* The lowest needed round of an eligible row (0 when there is none)
LowestNeeded(csv, info) ==
  LET needs == {FirstEmptyRanking(csv[i], info) : i \in EligibleLines(csv, info)}
  IN IF needs = {} THEN 0 ELSE CHOOSE n \in needs : \A m \in needs : n <= m

\* The eligible rows that need the lowest needed round
ChosenBucket(csv, info) ==
  {i \in EligibleLines(csv, info) : FirstEmptyRanking(csv[i], info) = LowestNeeded(csv, info)}

\* C7 (as claimed): every sentence of the batch needs the same round, the lowest
\* round any eligible sentence of the sheet needs.
C7_BatchNeedsLowestRound ==
  Loaded =>
    \A k \in 1..Len(data) :
      /\ data[k].originalRowIndex \in EligibleLines(fetched, HeaderInfo(fetched[1]))
      /\ FirstEmptyRanking(fetched[data[k].originalRowIndex], HeaderInfo(fetched[1]))
           = LowestNeeded(fetched, HeaderInfo(fetched[1]))

\* C8 (as claimed): the batch holds min(5, size of the chosen bucket) sentences, all
\* of them distinct rows of that bucket.
C8_BatchSizeAndMembership ==
  Loaded =>
    /\ Len(data) = Min(BatchSize, Cardinality(ChosenBucket(fetched, HeaderInfo(fetched[1]))))
    /\ \A k \in 1..Len(data) :
         data[k].originalRowIndex \in ChosenBucket(fetched, HeaderInfo(fetched[1]))
    /\ \A k \in 1..Len(data) : \A m \in 1..Len(data) :
         data[k].originalRowIndex = data[m].originalRowIndex => k = m

\* C9 (as claimed): the round loadData computes for a row is the first round whose
\* ranking cell is empty, whatever the comment cells hold.
C9_NeededRoundIsFirstEmptyRanking ==
  Loaded =>
    \A i \in 2..Len(fetched) :
      NeedsAnnotatorRound(fetched[i], HeaderInfo(fetched[1]))
        = FirstEmptyRanking(fetched[i], HeaderInfo(fetched[1]))

\* The number of candidate cells of a line that are not blank
CandidatesPresent(line, info) ==
  Cardinality({j \in 1..CandidateCount : Field(line, info.sentenceIndex + j) # ""})

\* C10 (as claimed): a row with fewer than 7 non-empty candidate cells is in no
\* batch, and every sentence of a batch has exactly 7 candidates.
C10_BatchRowsHaveSevenCandidates ==
  Loaded =>
    \A k \in 1..Len(data) :
      /\ CandidatesPresent(fetched[data[k].originalRowIndex], HeaderInfo(fetched[1]))
           = CandidateCount
      /\ Len(data[k].translations) = CandidateCount

-----------------------------------------------------------------------------
(* Properties of the id filter                                              *)

\* The ids of the loader's sheets whose number lies in 0..49, listed by hand
IdsInRange == {IdOf(n) : n \in 0..(MaxLoadRows - 1)} \cup {"es-cu-49"}

\* The ids of the loader's sheets without a number or with one beyond 49
IdsOutOfRange == {"99", "es-cu", "es-cu-50"}

\* C11: a row is in the batch only if its id has a number in 0..49: no row whose id
\* is "99", has no digits, or has a number beyond 49 is ever in a batch.
C11_BatchIdsInRange ==
  Loaded =>
    \A k \in 1..Len(data) :
      /\ data[k].id \in IdsInRange
      /\ Trim(fetched[data[k].originalRowIndex][1]) = data[k].id

\* A loaded batch with a row of id "es-cu-49", from a sheet that also holds a row
\* with an id the filter discards
C11_Witness ==
  /\ Loaded
  /\ \E k \in 1..Len(data) : data[k].id = "es-cu-49"
  /\ \E i \in 2..Len(fetched) : fetched[i][1] \in IdsOutOfRange

-----------------------------------------------------------------------------
(* Properties of one pass of the commit loop                                *)

\* The cells of either grid
GridCells(a, b) == (1..Max(Len(a), Len(b))) \X (1..Max(Width(a), Width(b)))

\* Execution e has just handled one more submission
Handled(e) ==
  /\ execs[e].phase = "running"
  /\ execs'[e].phase = "running"
  /\ Len(execs'[e].updates) = Len(execs[e].updates) + 1

\* The entry of updates execution e has just added
NewUpdate(e) == execs'[e].updates[Len(execs'[e].updates)]

\* C12: a successful submission writes the ranking cell and the comment cell of one
\* round of one row, with the ranking string and the comment, and leaves every other
\* cell of the sheet as it was.
C12_SuccessWritesTwoCells ==
  [][\A e \in DOMAIN execs :
       (Handled(e) /\ NewUpdate(e).success) =>
         \E r \in 1..Len(sheet), n \in 1..3 :
           /\ NewUpdate(e).row = r /\ NewUpdate(e).round = n
           /\ Cell(sheet', r, execs[e].rank[n]) = NewUpdate(e).ranking
           /\ Cell(sheet', r, execs[e].comm[n]) = NewUpdate(e).comment
           /\ \A rc \in GridCells(sheet, sheet') :
                rc \notin {<<r, execs[e].rank[n]>>, <<r, execs[e].comm[n]>>}
                  => Cell(sheet', rc[1], rc[2]) = Cell(sheet, rc[1], rc[2])]_vars

\* A request of two submissions for two rows has committed both, on a sheet whose
\* first row already had a round filled
C12_Witness ==
  /\ Len(execs[1].updates) = 2
  /\ execs[1].updates[1].success /\ execs[1].updates[2].success
  /\ execs[1].updates[1].row = 2 /\ execs[1].updates[2].row = 3
  /\ execs[1].updates[1].round = 2
  /\ Cell(sheet, 3, execs[1].rank[1]) = execs[1].updates[2].ranking

\* The submission execution e is about to handle, and the data row its id resolves to
\* in the id values the execution read (0 when none)
NextAnnotation(e) == execs[e].annotations[execs[e].i]

ResolvedRow(e) == FindRow(execs[e].idValues, NextAnnotation(e).id)

\* All three ranking cells of row r hold something
AllRoundsFilled(sh, e, r) == \A n \in 1..3 : ~CellIsEmpty(Cell(sh, r, execs[e].rank[n]))

\* C13 (as claimed): a submission for a data row whose three ranking cells are all
\* non-empty when it is handled is reported failed and changes no cell.
C13_FullRowRejected ==
  [][\A e \in DOMAIN execs :
       (Handled(e) /\ ResolvedRow(e) >= 2 /\ AllRoundsFilled(sheet, e, ResolvedRow(e)))
         => (~NewUpdate(e).success /\ sheet' = sheet)]_vars

\* The results of execution ex so far answer its submissions one for one, in order
ResultsInOrder(ex) ==
  /\ Len(ex.updates) = Min(ex.i - 1, Len(ex.annotations))
  /\ \A k \in 1..Len(ex.updates) : ex.updates[k].id = ex.annotations[k].id

\* C14: a request that reaches the loop returns one result per submission, in request
\* order; a failing submission changes no cell, and the submissions after it are
\* still handled.
C14_OneResultEachFailuresWriteNothing ==
  /\ [](\A e \in DOMAIN execs : execs[e].phase = "running" => ResultsInOrder(execs[e]))
  /\ [](lastPost.phase = "running" =>
          /\ ResultsInOrder(lastPost)
          /\ Len(ScriptResponse(lastPost).updates) = Len(lastPost.annotations))
  /\ [][\A e \in DOMAIN execs :
          (Handled(e) /\ ~NewUpdate(e).success) => sheet' = sheet]_vars

\* A returned request of two submissions whose first failed and whose second was
\* committed to the sheet
C14_Witness ==
  /\ lastPost.phase = "running"
  /\ Len(lastPost.updates) = 2
  /\ ~lastPost.updates[1].success
  /\ lastPost.updates[2].success
  /\ Cell(sheet, lastPost.updates[2].row, lastPost.rank[lastPost.updates[2].round])
       = lastPost.updates[2].ranking

-----------------------------------------------------------------------------
(* Properties of whole requests                                             *)

\* doPost run to its end, from the sheet and the execution in r
RECURSIVE RunLoop(_)
RunLoop(r) ==
  IF ExecFinished(r.exec) THEN [sheet |-> r.sheet, response |-> ScriptResponse(r.exec)]
  ELSE RunLoop(StepExecution(r.sheet, r.exec))

\* doPost(annotations) run alone on sheet sh: the sheet it leaves and the JSON it answers
RunPost(sh, annotations) == RunLoop(OpenExecution(sh, "direct", annotations))

\* Row hints a client may send: none (0), the header row, and rows at, above and below
\* the place of the sentence
Hints == {0, 1, 2, 3, 4}

\* The request with every rowIndex replaced by h
Rehint(annotations, h) ==
  [k \in DOMAIN annotations |-> [annotations[k] EXCEPT !.rowIndex = h]]

\* A request has returned and no execution is running
Returned == AllIdle /\ lastPost.phase = "running"

\* C15: the row a submission is written to is the one found by scanning the id column;
\* two requests that differ only in their rowIndex hints leave the same sheet and get
\* the same answer, also when the hint names another row than the sentence's.
C15_RowIndexHintIgnored ==
  Returned =>
    \A base \in {RunPost(sheet, lastPost.annotations)} :
      \A h \in Hints : RunPost(sheet, Rehint(lastPost.annotations, h)) = base

\* A request with hint 2 has been committed to row 3, the row that holds its id
C15_Witness ==
  /\ Returned
  /\ \E k \in 1..Len(lastPost.updates) :
       /\ lastPost.updates[k].success
       /\ lastPost.updates[k].row = 3
       /\ lastPost.annotations[k].rowIndex = 2
       /\ Trim(Cell(sheet, 3, 1)) = lastPost.annotations[k].id
       /\ Cell(sheet, 3, lastPost.rank[lastPost.updates[k].round]) = lastPost.updates[k].ranking

\* C17 (as claimed): sending a request again after it was applied leaves the sheet
\* as the first application left it; the retry fills no further round.
C17_RetryIdempotent ==
  Returned => RunPost(sheet, lastPost.annotations).sheet = sheet

\* C25 (as claimed): two submissions of one request that resolve to the same data row
\* are written to different rounds, and the ranking of the first is still in its cell
\* after the second.
C25_SlotRecheckedPerSubmission ==
  \A e \in DOMAIN execs :
    \A j \in 1..Len(execs[e].updates) : \A k \in (j + 1)..Len(execs[e].updates) :
      LET a == execs[e].updates[j]
          b == execs[e].updates[k]
      IN (execs[e].phase = "running" /\ a.success /\ b.success /\ a.row = b.row /\ a.row >= 2)
           => /\ a.round # b.round
              /\ Cell(sheet, a.row, execs[e].rank[a.round]) = a.ranking

-----------------------------------------------------------------------------
(* Properties of concurrent executions                                      *)

\* The results execution ex has completed (the last one is not, while it verifies)
CompletedUpdates(ex) ==
  IF ex.phase = "verifying" THEN SubSeq(ex.updates, 1, Len(ex.updates) - 1) ELSE ex.updates

\* C16 (as claimed): a submission whose read-back differs from the value it wrote is
\* reported failed: every result reported as success has read back its own ranking
\* and comment.
C16_MismatchReportedFailed ==
  \A e \in DOMAIN execs :
    \A k \in 1..Len(CompletedUpdates(execs[e])) :
      LET u == execs[e].updates[k]
      IN u.success => (u.verifiedRanking = u.ranking /\ u.verifiedComment = u.comment)

\* Execution e has just written the two cells of a submission
Wrote(e) == execs[e].phase = "running" /\ execs'[e].phase = "verifying"

\* What execution ex read, before its loop, in the ranking cells of row r
ReadOfRow(ex, r) == [n \in 1..3 |-> ex.rankingColumnValues[n][r - 1]]

\* C19: two executions for the same sentence that both read its ranking cells before
\* either wrote pick the same round, and the write of the later one replaces the
\* ranking of the earlier one in that round's cell.
C19_ConcurrentCommitsLastWriteWins ==
  [][\A e \in DOMAIN execs : \A o \in DOMAIN execs \ {e} :
       \A k \in 1..Len(CompletedUpdates(execs[o])) :
         (/\ Wrote(e)
          /\ execs[o].updates[k].success
          /\ execs[o].updates[k].row = NewUpdate(e).row
          /\ execs[o].updates[k].row >= 2
          /\ ReadOfRow(execs[o], NewUpdate(e).row) = ReadOfRow(execs[e], NewUpdate(e).row))
         => /\ NewUpdate(e).round = execs[o].updates[k].round
            /\ execs[e].rank[NewUpdate(e).round] = execs[o].rank[NewUpdate(e).round]
            /\ Cell(sheet', NewUpdate(e).row, execs[e].rank[NewUpdate(e).round])
                 = NewUpdate(e).ranking]_vars

\* Two executions read round 1 of row 2 as empty; one wrote its ranking there and
\* read it back, then the other wrote another ranking into the same cell
C19_Witness ==
  \E e \in DOMAIN execs : \E o \in DOMAIN execs \ {e} :
    /\ Len(execs[e].updates) = 1 /\ Len(execs[o].updates) = 1
    /\ execs[e].phase = "verifying" /\ execs[o].phase = "running"
    /\ execs[e].updates[1].success /\ execs[o].updates[1].success
    /\ execs[e].updates[1].row = 2 /\ execs[o].updates[1].row = 2
    /\ execs[e].updates[1].round = 1 /\ execs[o].updates[1].round = 1
    /\ ReadOfRow(execs[e], 2) = <<"", "", "">> /\ ReadOfRow(execs[o], 2) = <<"", "", "">>
    /\ execs[o].updates[1].verifiedRanking = execs[o].updates[1].ranking
    /\ execs[o].updates[1].ranking # execs[e].updates[1].ranking
    /\ Cell(sheet, 2, execs[e].rank[1]) = execs[e].updates[1].ranking
    /\ \A n \in 2..3 : Cell(sheet, 2, execs[e].rank[n]) = ""

-----------------------------------------------------------------------------
(* Properties of the session after a failed submit                          *)

\* The request in flight comes back and handleSubmit ends in its catch block
SubmitFails == submitting /\ ~submitting' /\ ~submitted'

\* loadData ends without error on a page that already holds a batch
Reloads == loading /\ ~loading' /\ error' = "" /\ Len(data) > 0

\* C18 (as claimed): after a failed submit the page shows the same batch, rankings and
\* comments again, editable and ready to submit, and no reload replaces the batch or
\* resets its rankings.
C18_FailedSubmitKeepsSession ==
  [][/\ SubmitFails => (Showing' /\ data' = data /\ comments' = comments)
     /\ Reloads => data' = data]_vars

-----------------------------------------------------------------------------
(* Properties of the page's effect on the sheet                             *)

\* Some cell of a data row differs between the sheet before and after the step
DataCellChanges ==
  /\ sheet' # sheet
  /\ \E rc \in GridCells(sheet, sheet') :
       rc[1] >= 2 /\ Cell(sheet', rc[1], rc[2]) # Cell(sheet, rc[1], rc[2])

\* C20: loading a batch, reordering and editing a comment never change the sheet; a
\* cell of a data row changes only in a pass of a commit that reports success.
C20_OnlyCommitsWrite ==
  [][/\ (loading' # loading \/ data' # data \/ comments' # comments) => sheet' = sheet
     /\ DataCellChanges => \E e \in DOMAIN execs : Handled(e) /\ NewUpdate(e).success]_vars

\* A batch was loaded, reordered and commented, nothing was submitted or posted, and
\* the sheet is still the one that was loaded
C20_Witness ==
  /\ Showing
  /\ posts = 0
  /\ inflight = <<>>
  /\ Len(data) > 0
  /\ data[1].rankedColumnNames # shown[1]
  /\ CommentOf(data[1].id) = "bien"
  /\ fetched = ParseCsv(sheet)

-----------------------------------------------------------------------------
(* Properties of the session's load and submit states                       *)

\* Every data line of the export has a ranking and a comment in each of the three
\* rounds: nothing is left to annotate
Exhausted(csv) ==
  \E info \in {HeaderInfo(csv[1])} :
    /\ \A n \in 1..3 : info.rankIndex[n] > 0 /\ info.commentIndex[n] > 0
    /\ \A i \in 2..Len(csv) : \A n \in 1..3 :
         Field(csv[i], info.rankIndex[n]) # "" /\ Field(csv[i], info.commentIndex[n]) # ""

NoDataRow(sh) == \A r \in 2..Len(sh) : \A c \in 1..Len(sh[r]) : Trim(sh[r][c]) = ""

HasHeader(sh, name) == \E c \in 1..Len(sh[1]) : ToLower(Trim(sh[1][c])) = name

\* How a load may end: with no error, on an export with a data row and both columns,
\* or with one of three messages and the batch as it was
LoadOutcome ==
  \/ /\ error' = ""
     /\ ~NoDataRow(sheet) /\ HasHeader(sheet, "id") /\ HasHeader(sheet, "sentence")
  \/ error' = "Failed to fetch Google Sheet" /\ data' = data
  \/ error' = "No data found in sheet" /\ NoDataRow(sheet) /\ data' = data
  \/ /\ error' = "Required columns (id, sentence) not found"
     /\ ~NoDataRow(sheet)
     /\ ~(HasHeader(sheet, "id") /\ HasHeader(sheet, "sentence"))
     /\ data' = data

\* C22: every load ends (loading becomes false), either with no error, or with an
\* error message when the fetch failed, the export has no data row, or the id or the
\* sentence column is missing; on the error screen the load can be started again, and
\* starting it clears the error.
C22_LoadEndsReadyOrError ==
  /\ loading ~> ~loading
  /\ [][(loading /\ ~loading') => LoadOutcome]_vars
  /\ [](ShowingError => ENABLED TryAgain)
  /\ [][(~loading /\ loading') => error' = ""]_vars

\* A load failed on a header without the id column, was started again, and failed
\* again on the fetch
C22_Witness ==
  /\ ~loading
  /\ error = "Failed to fetch Google Sheet"
  /\ Len(fetched) >= 2
  /\ ~HasHeader(sheet, "id")

\* No header cell of the export is one of the names of round n's ranking column
RankingColumnMissing(csv, n) ==
  ~\E c \in 1..Len(csv[1]) : ToLower(Trim(csv[1][c])) \in RankVariants(n)

\* C27: when the header has no ranking column for round N, round N counts as
\* incomplete for every row: every row's needed round is one of 1..N, none is taken as
\* fully annotated, so the rows are offered in the batch, and the load does not end
\* in an error on that account.
C27_MissingRoundColumnFailsOpen ==
  \A n \in 1..3 :
    /\ (Loaded /\ RankingColumnMissing(fetched, n)) =>
         /\ \A i \in 2..Len(fetched) :
              NeedsAnnotatorRound(fetched[i], HeaderInfo(fetched[1])) \in 1..n
         /\ Len(data) > 0
    /\ (~loading /\ Len(fetched) >= 2 /\ RankingColumnMissing(fetched, n)
          /\ HasHeader(sheet, "id") /\ HasHeader(sheet, "sentence"))
         => error \in {"", "Failed to fetch Google Sheet"}

\* A batch loaded from a sheet without the round-2 ranking column whose rows have all
\* their other annotator cells filled
C27_Witness ==
  /\ Loaded
  /\ RankingColumnMissing(fetched, 2)
  /\ ~RankingColumnMissing(fetched, 1) /\ ~RankingColumnMissing(fetched, 3)
  /\ Len(data) = 2
  /\ \A i \in 2..Len(fetched) : fetched[i][10] # "" /\ fetched[i][14] # ""

-----------------------------------------------------------------------------
(* Properties of the lists of a sentence                                    *)

\* The positions, among the 7 candidate columns, that hold a candidate in line i of
\* the export
PresentAt(csv, i) == {j \in 1..CandidateCount : csv[i][2 + j] # "" /\ csv[1][2 + j] # ""}

\* The column keys of the candidates of line i
KeysOfLine(csv, i) == {ToLower(csv[1][2 + j]) : j \in PresentAt(csv, i)}

\* C23: in every state of the session each sentence's rankedColumnNames is a
\* permutation of the column keys of its candidates: the same keys, each once, none
\* added, never a translation text; and these are the rankings that submit sends.
C23_RankedNamesArePermutation ==
  /\ [](Loaded =>
          \A k \in 1..Len(data) :
            /\ IsPermutationOfKeys(data[k].rankedColumnNames,
                                   KeysOfLine(fetched, data[k].originalRowIndex))
            /\ \A i \in 1..Len(data[k].rankedColumnNames) :
                 data[k].rankedColumnNames[i] \in {ColumnKeys[j] : j \in 1..CandidateCount})
  /\ [][(inflight = <<>> /\ inflight' # <<>>) =>
          /\ Len(inflight') = Len(data)
          /\ \A k \in 1..Len(data) :
               /\ inflight'[k].id = data[k].id
               /\ inflight'[k].rankings = data[k].rankedColumnNames]_vars

\* A sentence with six candidates was reordered, not back to the order of the sheet
\* nor to the order first shown, and its ranking has been sent
C23_Witness ==
  /\ inflight # <<>>
  /\ Len(data[1].rankedColumnNames) = 6
  /\ data[1].rankedColumnNames # shown[1]
  /\ data[1].rankedColumnNames # data[1].translationColumns
  /\ data[1].rankedColumnNames[1] = data[1].translationColumns[3]
  /\ inflight[1].rankings = data[1].rankedColumnNames

\* The text, in line i of the export, of the candidate in the column headed by key
TextOfKey(csv, i, key) ==
  csv[i][2 + CHOOSE j \in 1..CandidateCount : ToLower(csv[1][2 + j]) = key]

\* C26: in every state of the session, for every sentence and every position i,
\* rankedTranslations[i] is the text of the candidate whose column key is
\* rankedColumnNames[i]: the first shuffle and every reorder move both lists alike.
C26_ListsIndexAligned ==
  Loaded =>
    \A k \in 1..Len(data) :
      /\ Len(data[k].rankedTranslations) = Len(data[k].rankedColumnNames)
      /\ \A i \in 1..Len(data[k].rankedColumnNames) :
           data[k].rankedTranslations[i]
             = TextOfKey(fetched, data[k].originalRowIndex, data[k].rankedColumnNames[i])

\* A sentence shuffled at load and then reordered: the item first shown at the top is
\* now third, the one shown third is now at the top
C26_Witness ==
  /\ Loaded
  /\ Len(data) = 2
  /\ data[2].rankedColumnNames # shown[2]
  /\ shown[2] # data[2].translationColumns
  /\ data[2].rankedColumnNames[3] = shown[2][1]
  /\ data[2].rankedColumnNames[1] = shown[2][3]
  /\ data[2].rankedTranslations[3] = TextOfKey(fetched, data[2].originalRowIndex, shown[2][1])

-----------------------------------------------------------------------------
(* Properties of the end of a submit                                        *)

\* The request of the page fails as a whole: the script is not reached or answers
\* with an HTML page, a body that is not JSON or a status that is not OK; its answer
\* is lost on the way; or its JSON has a top-level error
WholeRequestFails ==
  \/ \E res \in RouteFailures : RouteFail(res)
  \/ ResponseLost(1)
  \/ SubmitDone(1) /\ ScriptResponse(execs[1]).error # ""

\* C28: when the request fails as a whole the route answers with a status outside
\* 2xx and an error, and handleSubmit ends with that error set, submitted false and
\* submitting false.
C28_WholeFailurePropagated ==
  /\ [](\A res \in RouteFailures : res.status \notin 200..299 /\ res.error # "")
  /\ [](\A e \in DOMAIN execs :
          execs[e].phase = "failed" =>
            /\ RouteAnswer(ScriptResponse(execs[e])).status \notin 200..299
            /\ RouteAnswer(ScriptResponse(execs[e])).error # "")
  /\ [][WholeRequestFails => (error' # "" /\ ~submitted' /\ ~submitting')]_vars

\* The script answered the page's request with a top-level error and the page shows it
C28_Witness ==
  /\ lastPost.phase = "failed"
  /\ lastPost.origin = "page"
  /\ error = "Failed to update sheet: ID column not found in sheet headers"
  /\ ~submitted
  /\ ~submitting

\* C24 (as claimed): the step in which a submission succeeds starts the load of a new
\* batch, so the session goes on with fresh sentences.
C24_SuccessLoadsNextBatch ==
  [][(~submitted /\ submitted') => loading']_vars


\* C29: every submit that passed the gate ends with submitting false, either done
\* (submitted, no error) or not submitted with the error set; submitting is true only
\* while the request is in flight, so no path leaves the session in Submitting.
C29_SubmitTerminates ==
  /\ submitting ~> ~submitting
  /\ [](submitting => inflight # <<>>)
  /\ [][(submitting /\ ~submitting') =>
          \/ submitted' /\ error' = ""
          \/ ~submitted' /\ error' # ""]_vars
  /\ [][(HandleSubmit /\ canSubmit /\ ~submitting') => (error' # "" /\ ~submitted')]_vars

\* The script had written the page's submission when its answer was lost; handleSubmit
\* has ended with the error and without submitted
C29_Witness ==
  /\ ~submitting
  /\ ~submitted
  /\ inflight = <<>>
  /\ error = "Failed to update sheet: fetch failed"
  /\ lastPost.origin = "page"
  /\ Len(lastPost.updates) > 0
  /\ lastPost.updates[1].success

\* C30: a request whose JSON body has no annotations field, or one that is not an
\* array, or an empty array, is answered with status 400 and an error, and the route
\* neither calls the script nor fetches the sheet: the store and the executions stay
\* as they were.
C30_InvalidRequestRejected ==
  [][\A body \in RouteBodies :
       (/\ RoutePost(body)
        /\ body.parsed
        /\ body.annotations.kind # "array" \/ body.annotations.items = <<>>)
       => /\ result'.status = 400
          /\ result'.error # ""
          /\ routeFetch' = ""
          /\ UNCHANGED <<sheet, posts, lastPost, execs>>]_vars

\* A request was committed through the route, and the next one was rejected
C30_Witness ==
  /\ result.status = 400
  /\ result.error = "Invalid annotations data"
  /\ routeFetch = ""
  /\ posts = 1
  /\ lastPost.origin = "route"
  /\ Len(lastPost.updates) > 0
  /\ lastPost.updates[1].success

-----------------------------------------------------------------------------
(* Properties of the store under any commits                                 *)

\* The filled ranking cells of every data row are those of rounds 1..k for some k, in
\* the columns that a commit resolves for the rounds; a round whose column the header
\* does not name is left out
FilledIsPrefix(sh) ==
  \A r \in DataRows(sh), n \in 2..3 :
    (/\ RankingColumn(sh, n) # 0
     /\ RankingColumn(sh, n - 1) # 0
     /\ ~CellIsEmpty(RankingCell(sh, r, n)))
      => ~CellIsEmpty(RankingCell(sh, r, n - 1))

\* C31 (as claimed): from a store whose filled rounds form a prefix of 1, 2, 3 in every
\* row, every state that commits lead to has the filled ranking cells of every row
\* forming a prefix.
C31_FilledRoundsFormPrefix == FilledIsPrefix(sheet)

-----------------------------------------------------------------------------
(* Concurrent executions of doPost, one cell write at a time                 *)

\* rankingCell.setValue(rankingString) of one pass of the loop; a pass that fails
\* writes nothing and has no more to do
PostRanking(e) ==
  /\ execs[e].phase = "running"
  /\ execs[e].i <= Len(execs[e].annotations)
  /\ \E one \in {CommitOne(sheet, execs[e], execs[e].idValues,
                            execs[e].rankingColumnValues, execs[e].annotations[execs[e].i])} :
       IF one.update.success
         THEN /\ sheet' = SetCell(sheet, one.update.row, execs[e].rank[one.update.round],
                                  one.update.ranking)
              /\ execs' = [execs EXCEPT ![e] =
                             [@ EXCEPT !.phase = "ranked", !.updates = Append(@, one.update)]]
         ELSE /\ sheet' = sheet
              /\ execs' = [execs EXCEPT ![e] =
                             [@ EXCEPT !.i = @ + 1, !.updates = Append(@, one.update)]]
  /\ UNCHANGED <<scriptUrlSet, posts, lastPost, pageVars, routeFetch>>

\* commentCell.setValue(comment) and SpreadsheetApp.flush() of the same pass
PostComment(e) ==
  /\ execs[e].phase = "ranked"
  /\ \E u \in {execs[e].updates[Len(execs[e].updates)]} :
       sheet' = SetCell(sheet, u.row, execs[e].comm[u.round], u.comment)
  /\ execs' = [execs EXCEPT ![e] = [@ EXCEPT !.phase = "verifying"]]
  /\ UNCHANGED <<scriptUrlSet, posts, lastPost, pageVars, routeFetch>>

NextCells ==
  \/ \E e \in 1..MaxExecutions, annotations \in RaceRequests : PostBegin(e, annotations)
  \/ \E e \in 1..MaxExecutions : PostRanking(e)
  \/ \E e \in 1..MaxExecutions : PostComment(e)
  \/ \E e \in 1..MaxExecutions : PostVerify(e)
  \/ \E e \in 1..MaxExecutions : PostEnd(e)

\* Clients posting to the script at the same time, the executions interleaving between
\* any two cell writes
SpecCells == InitRace /\ [][NextCells]_vars

\* The ranking and comment texts that one submission for the sentence `id` leaves in a
\* slot: those of the requests, and those of the earlier annotators
SlotValues(id) ==
  {<<Join(req[k].rankings), req[k].comment>> :
     req \in {q \in RaceRequests : \E j \in 1..Len(q) : q[j].id = id}, k \in {1}}
  \cup {<<FilledRanking, FilledComment>>}

\* C32 (as claimed): whenever no execution is in progress, the ranking cell and the
\* comment cell of every filled round-slot hold the ranking and the comment of one and
\* the same submission.
C32_SlotHoldsOneSubmission ==
  AllIdle =>
    \A r \in DataRows(sheet), n \in 1..3 :
      (RankingColumn(sheet, n) # 0 /\ ~CellIsEmpty(RankingCell(sheet, r, n)))
        => <<RankingCell(sheet, r, n), Cell(sheet, r, HeaderIndex(sheet[1], CommentColName(n)))>>
             \in SlotValues(Cell(sheet, r, 1))

\* The names of the annotator columns a commit creates when the header lacks them
AnnotatorColumnNames == {RankingColName(n) : n \in 1..3} \cup {CommentColName(n) : n \in 1..3}

\* C33 (as claimed): the only cells of row 1 that a step of a commit changes are blank
\* header cells that get the name of a missing annotator column; no ranking and no
\* comment is written into the header row, whatever the submitted id.
C33_HeaderRowNeverWritten ==
  [][\A c \in 1..Max(Width(sheet), Width(sheet')) :
       Cell(sheet', 1, c) # Cell(sheet, 1, c)
         => /\ Cell(sheet, 1, c) = ""
            /\ Cell(sheet', 1, c) \in AnnotatorColumnNames]_vars

-----------------------------------------------------------------------------
(* The loader and the commit on one sheet: which column is round n's         *)

\* Names under which loadData accepts the ranking and the comment column of round n:
\* the names the script creates, the same with blanks, and the short names
VariantNames(style, n) ==
  LET d == Char("123", n)
  IN IF style = "rankings" THEN <<RankingColName(n), CommentColName(n)>>
     ELSE IF style = "blanks"
       THEN <<"Annotator " \o d \o " Rankings", "Annotator " \o d \o " Comments">>
     ELSE IF style = "short"
       THEN <<"Annotator_" \o d, "Annotator_" \o d \o "_Comment">>
     ELSE <<"Annotator " \o d, "Annotator " \o d \o " Comment">>

VariantStyles == {"rankings", "blanks", "short", "shortblanks"}

VariantHeader(style) ==
  BaseHeader \o VariantNames(style, 1) \o VariantNames(style, 2) \o VariantNames(style, 3)

\* Sheets whose annotator columns are named in one of the styles, or not there yet,
\* the first row with a prefix of its rounds annotated
VariantSheets ==
  {<<h>> \o [i \in 1..n |-> DataRow(IdOf(i - 1), {}, Prefix(IF i = 1 THEN f ELSE 0))] :
     h \in {VariantHeader(style) : style \in VariantStyles}
             \cup {BaseHeader \o NoAnnotatorHeader},
     n \in 1..MaxDataRows, f \in 0..2}

InitColumns ==
  /\ sheet \in VariantSheets
  /\ scriptUrlSet = TRUE
  /\ posts = 0
  /\ lastPost = IdleExec
  /\ execs = <<IdleExec>>
  /\ PageInit

NextColumns ==
  \/ \E annotations \in RaceRequests : AllIdle /\ PostBegin(1, annotations)
  \/ PostStep(1)
  \/ PostEnd(1)
  \/ \E kBatch \in 0..MaxShuffle, kRows \in 0..MaxShuffle : AllIdle /\ LoadDone(kBatch, kRows)

\* Commits one after another on such a sheet, and a session that loads its batch
\* before, between or after them
SpecColumns == InitColumns /\ [][NextColumns]_vars

\* C34 (as claimed): the column loadData resolves as the ranking column of round n is
\* the column in which a commit checks and writes round n, so a load that follows a
\* commit reads, as the ranking of the round the commit answered, what it wrote.
C34_ReaderWriterColumnsAgree ==
  /\ \A n \in 1..3 :
       execs[1].phase = "running"
         => HeaderInfo(ParseCsv(sheet)[1]).rankIndex[n] = execs[1].rank[n]
  /\ \A k \in 1..Len(lastPost.updates) :
       (/\ AllIdle
        /\ Loaded
        /\ fetched = ParseCsv(sheet)
        /\ lastPost.updates[k].success
        /\ lastPost.updates[k].row > 1)
         => Field(fetched[lastPost.updates[k].row],
                  HeaderInfo(fetched[1]).rankIndex[lastPost.updates[k].round])
              = lastPost.updates[k].ranking

-----------------------------------------------------------------------------
(* The loader's offer against the commit on the same sheet                   *)

\* What doPost, run alone on the sheet sh, answers for the submission of batch row k
CommitOfOffered(sh, k) ==
  RunPost(sh, <<Annotation(data[k].id, data[k].rankedColumnNames, "bien")>>).response

\* The round loadData computed as needed for batch row k
NeededRoundOf(k) ==
  NeedsAnnotatorRound(fetched[data[k].originalRowIndex], HeaderInfo(fetched[1]))

\* C35 (as claimed): a commit of an offered row's submission, executed on the sheet the
\* batch was computed from, succeeds and writes the round that loadData computed as
\* needed for the row.
C35_OfferedIsCommittable ==
  (Loaded /\ fetched = ParseCsv(sheet)) =>
    \A k \in 1..Len(data) :
      \E resp \in {CommitOfOffered(sheet, k)} :
        /\ Len(resp.updates) = 1
        /\ resp.updates[1].success
        /\ resp.updates[1].round = NeededRoundOf(k)

-----------------------------------------------------------------------------
(* Sessions one after another: each loads its batch, reorders and comments   *)
(* every sentence, and commits                                              *)

MaxSessionRows == 6    \* data rows of the sheet the sessions work through

\* Sheets nobody has annotated: one row or more rows than a batch holds, with or
\* without the annotator columns, with or without a last row whose id is out of range
SessionSheets ==
  {<<h>> \o [i \in 1..n |-> DataRow(IdOf(i - 1), {}, Prefix(0))] \o tail :
     h \in {BaseHeader \o AnnotatorHeader, BaseHeader \o NoAnnotatorHeader},
     n \in {1, MaxSessionRows},
     tail \in {<<>>, <<KindRow(IdOf(0), "id50")>>}}

\* The batch loadData selects on the sheet sh
SessionBatch(sh, kBatch, kRows) ==
  LET csv == ParseCsv(sh)
  IN SelectBatch(CandidateRows(AllRows(csv, HeaderInfo(csv[1]))), kBatch, kRows)

\* The batch after the annotator has dragged the first candidate of every sentence to
\* the second place
SessionEdited(batch) ==
  [k \in DOMAIN batch |->
     [batch[k] EXCEPT !.rankedColumnNames = Move(@, 0, 1),
                      !.rankedTranslations = Move(@, 0, 1)]]

\* The body handleSubmit posts for the edited batch, every comment filled in
SessionAnnotations(batch) ==
  [k \in DOMAIN batch |->
     [id |-> batch[k].id, rowIndex |-> batch[k].originalRowIndex,
      rankings |-> batch[k].rankedColumnNames, comment |-> "bien"]]

\* doPost run to its end: the sheet it leaves and the finished execution
RECURSIVE RunExecution(_)
RunExecution(r) ==
  IF ExecFinished(r.exec) THEN r
  ELSE CHOOSE out \in {RunExecution(x) : x \in {StepExecution(r.sheet, r.exec)}} : TRUE

\* One whole session with no other session in between: load, edit past the gate,
\* submit, the route forwards, doPost commits, the page is done. A session that is
\* offered nothing submits nothing.
Session(kBatch, kRows) ==
  /\ \E offered \in {SessionBatch(sheet, kBatch, kRows)} : \E batch \in {SessionEdited(offered)} :
       /\ data' = batch
       /\ shown' = [k \in DOMAIN offered |-> offered[k].rankedColumnNames]
       /\ comments' = [x \in {batch[k].id : k \in DOMAIN batch} |-> "bien"]
       /\ IF Len(batch) = 0
            THEN /\ submitted' = FALSE
                 /\ UNCHANGED <<sheet, lastPost, result, routeFetch>>
            ELSE \E r \in {RunExecution(OpenExecution(sheet, "page", SessionAnnotations(batch)))} :
                   /\ sheet' = r.sheet
                   /\ lastPost' = r.exec
                   /\ result' = RouteAnswer(ScriptResponse(r.exec))
                   /\ submitted' = (ScriptResponse(r.exec).error = "")
                   /\ routeFetch' = "script"
  /\ fetched' = ParseCsv(sheet)
  /\ loading' = FALSE
  /\ UNCHANGED <<scriptUrlSet, posts, execs, submitting, shouldRedirect, error, alertMsg,
                 inflight>>

InitSessions ==
  /\ sheet \in SessionSheets
  /\ scriptUrlSet = TRUE
  /\ posts = 0
  /\ lastPost = IdleExec
  /\ execs = <<IdleExec>>
  /\ PageInit

NextSessions == \E kBatch \in 0..MaxShuffle, kRows \in 0..MaxShuffle : Session(kBatch, kRows)

\* The data rows loadData can ever offer: id in the valid range, all 7 candidates
EligibleRows(sh) ==
  {r \in DataRows(sh) :
     /\ NumericId(Trim(Cell(sh, r, 1))) \in 0..MaxValidId
     /\ \A j \in 1..CandidateCount : Trim(Cell(sh, r, 2 + j)) # ""}

RoundFilled(sh, r, n) == RankingColumn(sh, n) # 0 /\ ~CellIsEmpty(RankingCell(sh, r, n))

AllFilled(sh) == \A r \in EligibleRows(sh), n \in 1..3 : RoundFilled(sh, r, n)

\* There is work for a session: no session has run yet, or a slot is still empty
SessionPending == loading \/ ~AllFilled(sheet)

\* Sessions keep coming: weak fairness of the sessions, WF_vars(NextSessions), with the
\* condition under which a session step changes the state written out as
\* SessionPending
SessionsKeepRunning == <>[]SessionPending => []<><<NextSessions>>_vars

SpecSessions == InitSessions /\ [][NextSessions]_vars /\ SessionsKeepRunning

\* C36: with sessions running one after another, eventually every eligible row has its
\* three rounds filled and stays so; until then every load offers something and every
\* session that was offered something fills a slot; from then on every load gives an
\* empty batch; and no step fills a slot of round 2 or 3 while an eligible row has the
\* round before it empty.
C36_SessionsCompleteInRoundOrder ==
  /\ <>[]AllFilled(sheet)
  /\ [](~AllFilled(sheet) =>
          \E kBatch \in 0..MaxShuffle, kRows \in 0..MaxShuffle :
            SessionBatch(sheet, kBatch, kRows) # <<>>)
  /\ [][data' # <<>> =>
          \E r \in EligibleRows(sheet), n \in 1..3 :
            ~RoundFilled(sheet, r, n) /\ RoundFilled(sheet', r, n)]_vars
  /\ [](AllFilled(sheet) =>
          \A kBatch \in 0..MaxShuffle, kRows \in 0..MaxShuffle :
            SessionBatch(sheet, kBatch, kRows) = <<>>)
  /\ [][\A r \in DataRows(sheet), n \in 2..3 :
          (~RoundFilled(sheet, r, n) /\ RoundFilled(sheet', r, n))
            => \A q \in EligibleRows(sheet) : RoundFilled(sheet, q, n - 1)]_vars

\* More rows than one batch holds have all been filled, and a later session was
\* offered nothing
C36_Witness ==
  /\ Cardinality(EligibleRows(sheet)) > BatchSize
  /\ AllFilled(sheet)
  /\ data = <<>>
  /\ ~loading

-----------------------------------------------------------------------------
(* Column resolution of doPost on headers of any shape                       *)

\* The annotator column names of the set S of places 1..6, in the order perm
Arrange(S, perm) ==
  LET idx == SelectSeq(perm, LAMBDA i : i \in S)
  IN [k \in 1..Len(idx) |-> AnnotatorHeader[idx[k]]]

\* A header of 15 cells: the base columns, then the given names, then blanks
PaddedHeader(names) ==
  BaseHeader \o names \o [k \in 1..(6 - Len(names)) |-> ""]

\* Sheets with any subset of the six annotator columns, in the usual or the reverse
\* order, or with the column names of the earlier script; one data row, which may hold
\* a stray text beyond the named columns
ResolveSheets ==
  {<<PaddedHeader(names), [DataRow(IdOf(0), {}, Prefix(0)) EXCEPT ![15] = stray]>> :
     names \in {Arrange(S, perm) : S \in SUBSET (1..6),
                                   perm \in {<<1, 2, 3, 4, 5, 6>>, <<6, 5, 4, 3, 2, 1>>}}
               \cup {<<"Annotator_2">>, <<"Annotator_1", "Annotator_3">>},
     stray \in {"", "nota"}}

InitResolve ==
  /\ sheet \in ResolveSheets
  /\ scriptUrlSet = TRUE
  /\ posts = 0
  /\ lastPost = IdleExec
  /\ execs = <<IdleExec>>
  /\ PageInit

\* Commits one after another on such a sheet
SpecResolve == InitResolve /\ [][NextColumns]_vars

\* The find-or-create loop of the earlier script (columns Annotator_1..3, no comment
\* columns): a missing column i is created at lastCol + i, i counted from 1
RECURSIVE ResolveEarlier(_, _, _, _)
ResolveEarlier(sh, sheetHeaders, lastCol, i) ==
  IF i > 3 THEN [sh |-> sh, rank |-> <<>>]
  ELSE LET colName == "Annotator_" \o Char("123", i)
           found == HeaderIndex(sheetHeaders, colName)
           colIndex == IF found = 0 THEN lastCol + i ELSE found
           rest == ResolveEarlier(IF found = 0 THEN SetCell(sh, 1, colIndex, colName) ELSE sh,
                                  IF found = 0 THEN Append(sheetHeaders, colName)
                                               ELSE sheetHeaders,
                                  lastCol, i + 1)
       IN [sh |-> rest.sh, rank |-> <<colIndex>> \o rest.rank]

\* The six column indices an execution resolved, in the order of AnnotatorHeader
ResolvedIndices(ex) ==
  <<ex.rank[1], ex.comm[1], ex.rank[2], ex.comm[2], ex.rank[3], ex.comm[3]>>

\* C38: when doPost starts on a sheet, the six columns it resolves are pairwise
\* distinct and carry their names; a column whose name the header lacked lies beyond
\* the last column with content, and no cell that had content is changed. The loop of
\* the earlier script, on the same sheets, also gives distinct columns, the created
\* ones beyond the last column.
C38_ResolvedColumnsDistinct ==
  /\ [][(execs[1].phase = "idle" /\ execs'[1].phase = "running") =>
          \E ix \in {ResolvedIndices(execs'[1])} : \E lastCol \in {LastColumn(sheet)} :
            /\ \A a \in 1..6, b \in 1..6 : a # b => ix[a] # ix[b]
            /\ \A a \in 1..6 :
                 /\ ix[a] >= 1
                 /\ ToLower(Trim(Cell(sheet', 1, ix[a]))) = ToLower(AnnotatorHeader[a])
                 /\ HeaderIndex(sheet[1], AnnotatorHeader[a]) # 0
                      => ix[a] = HeaderIndex(sheet[1], AnnotatorHeader[a])
                 /\ HeaderIndex(sheet[1], AnnotatorHeader[a]) = 0 => ix[a] > lastCol
            /\ \A r \in 1..Len(sheet), c \in 1..lastCol : Cell(sheet', r, c) = Cell(sheet, r, c)]_vars
  /\ [](\E lastCol \in {LastColumn(sheet)} :
          \E old \in {ResolveEarlier(sheet, [c \in 1..lastCol |-> Cell(sheet, 1, c)], lastCol, 1)} :
            /\ \A a \in 1..3, b \in 1..3 : a # b => old.rank[a] # old.rank[b]
            /\ \A a \in 1..3 :
                 \/ old.rank[a] > lastCol
                 \/ ToLower(Trim(Cell(sheet, 1, old.rank[a]))) = "annotator_" \o Char("123", a)
            /\ \A r \in 1..Len(sheet), c \in 1..lastCol : Cell(old.sh, r, c) = Cell(sheet, r, c))

\* doPost has started on a header that had the comment column of round 1 and the
\* ranking column of round 3 only, in the reverse order, and a stray text beyond them:
\* the four missing columns are created beyond that text
C38_Witness ==
  /\ execs[1].phase = "running"
  /\ posts = 1
  /\ execs[1].rank[3] = 10
  /\ execs[1].comm[1] = 11
  /\ execs[1].rank[1] = 16
  /\ execs[1].comm[3] = 19
  /\ Cell(sheet, 2, 15) = "nota"

====
